---- MODULE Spec2Model ----
(***************************************************************************)
(* Model of the agent execution core of pebkac-chrome: the tab routes and  *)
(* the browser session kernel (app/api/routes/browser.py,                  *)
(* app/core/browser.py), the agent orchestrator                            *)
(* (app/services/agent_manager.py, app/services/safe_code_agent.py) and    *)
(* the tiered extraction cache (app/services/cache_service.py,             *)
(* app/utils/cache.py, app/utils/memory_manager.py).                       *)
(*                                                                         *)
(* Each subsystem has its own specification (SpecTabs, SpecBrowser, ...)   *)
(* over its own variables; the variables of the other subsystems stay at   *)
(* their idle values.                                                      *)
(***************************************************************************)
EXTENDS Integers, Sequences, FiniteSets, TLC

VARIABLES
    \* ---- tab routes (app/api/routes/browser.py, app/tools/tab_tools.py)
    tabs,            \* browser.tabs: the open tabs in index order, tabs[1] is index 0
    nextTabId,       \* identity of the next tab object the browser creates
    tabResp,         \* the response of the last tab request
    \* ---- browser session kernel (app/core/browser.py)
    browser,         \* _browser: the global browser handle, NoBrowser for None
    browser_tab,     \* _browser_tab: the global tab handle (its browser), NoBrowser for None
    browser_lock,    \* _browser_lock: the caller holding it, NoCaller when free
    tab_creation_lock, \* _tab_creation_lock: the caller holding it, NoCaller when free
    live,            \* the browser processes that exist
    nextBrowser,     \* identity of the next browser zd.start() creates
    kpc,             \* per caller: where it is suspended
    kop,             \* per caller: the operation it runs
    kloc,            \* per caller: the browser/tab held in a local variable
    kret,            \* per caller: what its last operation returned
    \* ---- agent orchestrator (app/services/agent_manager.py, safe_code_agent.py)
    active_tasks,    \* AgentManager.active_tasks: request id -> run, NoRun when absent
    last_result,     \* AgentManager.last_result (NoneText for None)
    last_result_time, \* AgentManager.last_result_time (0 for None)
    last_query,      \* AgentManager.last_query (NoRun for None)
    runs,            \* per run: generator, task and agent thread
    lastResultResp,  \* the response of GET /api/agent/last-result, just served
    cancelResp,      \* what cancel_agent returned, just called
    lastCompleted,   \* the run whose agent.run returned a final answer last, and when
    clock,           \* time.time()
    ticks,           \* clock advances so far
    \* ---- code repair pass (app/services/safe_code_agent.py)
    last_code,       \* SafeCodeAgent.last_code: the block as the model emitted it
    executed_code,   \* the block execute hands to the interpreter
    repairPc,        \* idle, emitted (execute not yet run), executed
    \* ---- tiered extraction cache (app/services/cache_service.py, app/utils)
    memory_cache,    \* BoundedLRUCache.cache: entries, least recently used first
    current_size_bytes, \* BoundedLRUCache.current_size_bytes
    redis_client,    \* CacheManager.redis_client is set (Redis is configured)
    redis_data,      \* what Redis holds: key -> value, None when absent
    redis_expires,   \* when Redis drops the key (SETEX): key -> time
    duckdb,          \* ExtractorCacheService.duckdb is set (L2 is configured)
    duckdb_pages,    \* the cached_pages table of the DuckDB service: key -> content
    ttl_expires,     \* cached_pages.ttl_expires: key -> time
    now,             \* time.time() / datetime.now(), in seconds
    cacheOp,         \* the last cache request served and its response
    cacheRequests,   \* how many cache requests have been served
    tierLog,         \* what was last put under each key, and whether L2 took it
    recency,         \* in the runs of the memory cache alone: its keys, least recently used first
    fault,           \* in the runs with failing layers: which calls of the last operation failed
    \* ---- operations on the page (core/browser.py, services, routes)
    tabOps,          \* per caller: the operation on the page it is in
    \* ---- concurrent selector tracking (services/cache_service.py, utils/cache.py)
    hot,             \* the hot counters of one (domain, selector): in Redis and in memory
    tracking,        \* per tracker: where its track_selector_performance is suspended
    \* ---- tab pool (app/utils/tab_manager.py)
    pool,            \* the TabPool: active_tabs, available_tabs, _lock, the next tab, the time
    poolCalls,       \* per caller: the pool operation it is in
    \* ---- connection pool of the DuckDB service (duckdb-service/duckdb_service.py)
    db_pool,         \* DuckDBPool.available: the queued connections and the waiting getters
    handlers,        \* per request handler: where it is, its route, its connection
    dbRequests,      \* how many requests have arrived
    \* ---- profile directories (core/browser.py)
    fs,              \* the file system under /tmp: what each path is
    manager,         \* the BrowserManager: how its construction and start went
    made,            \* the directories the kernel has made
    \* ---- extraction pipeline (services/extraction.py)
    extraction,      \* the extraction call in progress, or the last one and its response
    \* ---- selector memory (cache_service.py, duckdb-service/duckdb_service.py)
    cached_elements, \* the cached_elements table of the DuckDB service: its rows
    seq_cached_elements, \* seq_cached_elements: the id of the next row
    selector_hot,    \* the L1 counters kept under _make_selector_key
    selectorOp,      \* the last selector attempt recorded
    selectorCalls    \* how many selector attempts have been recorded

tabVars == <<tabs, nextTabId, tabResp>>
kernelVars == <<browser, browser_tab, browser_lock, tab_creation_lock, live,
                nextBrowser, kpc, kop, kloc, kret>>

agentVars == <<active_tasks, last_result, last_result_time, last_query, runs,
               lastResultResp, cancelResp, lastCompleted, clock, ticks>>

repairVars == <<last_code, executed_code, repairPc>>

cacheVars == <<memory_cache, current_size_bytes, redis_client, redis_data,
               redis_expires, duckdb, duckdb_pages, ttl_expires, now,
               cacheOp, cacheRequests, tierLog, recency, fault>>

selectorVars == <<cached_elements, seq_cached_elements, selector_hot,
                  selectorOp, selectorCalls>>

extractVars == <<extraction>>

profileVars == <<fs, manager, made>>

opVars == <<tabOps>>

trackVars == <<hot, tracking>>

poolVars == <<pool, poolCalls>>

duckVars == <<db_pool, handlers, dbRequests>>

vars == <<tabVars, kernelVars, agentVars, repairVars, cacheVars, selectorVars,
         extractVars, profileVars,
         opVars,
         trackVars,
         poolVars,
         duckVars>>

(***************************************************************************)
(* Browser session kernel: the module-level browser and tab handles, the   *)
(* two locks, and get_browser / get_tab / cleanup run by concurrent        *)
(* callers.  A step is the code between two suspension points.             *)
(***************************************************************************)

\* Concurrent callers of the kernel.
NumCallers == 2
\* Browser processes one exploration may start.
MaxBrowsers == 3

Callers == 1 .. NumCallers
NoCaller == 0
NoBrowser == 0
BrowserIds == 1 .. MaxBrowsers

KernelOps == {"get_browser", "get_tab", "cleanup"}

IdleKernel ==
    /\ browser = NoBrowser
    /\ browser_tab = NoBrowser
    /\ browser_lock = NoCaller
    /\ tab_creation_lock = NoCaller
    /\ live = {}
    /\ nextBrowser = 1
    /\ kpc = [c \in Callers |-> "idle"]
    /\ kop = [c \in Callers |-> "none"]
    /\ kloc = [c \in Callers |-> NoBrowser]
    /\ kret = [c \in Callers |-> NoBrowser]

InitKernel == IdleKernel

\* is_browser_alive: the outcomes the probe of handle b can have.  A handle of a
\* running browser answers; a Browser handle only reads its cached tab list, so
\* the probe of one whose process is gone may still answer.
is_browser_alive(b) == IF b \in live THEN {TRUE} ELSE {TRUE, FALSE}

\* A probe of a tab that always answers.
is_tab_alive_Unprobed(t) == TRUE

\* The probe of a tab evaluates a script in the page: it answers iff the
\* process runs.
is_tab_alive(t) == t \in live

\* pkill -o of _create_browser: best effort, all failures swallowed.  Either
\* the oldest browser process still running is signalled, or nothing is.
Oldest(S) == CHOOSE b \in S : \A o \in S : b <= o
pkill(running) == IF running = {} THEN {running}
                  ELSE {running, running \ {Oldest(running)}}

\* A caller starts one of the given operations of the kernel.
KernelCallOf(c, ops) ==
    /\ kpc[c] = "idle"
    /\ \E op \in ops :
          /\ kop' = [kop EXCEPT ![c] = op]
          /\ kpc' = [kpc EXCEPT ![c] =
                        CASE op = "get_browser" -> "gb_lock"
                          [] op = "get_tab" -> "gt_quick"
                          [] OTHER -> "cl_start"]
    /\ kloc' = [kloc EXCEPT ![c] = NoBrowser]
    /\ UNCHANGED <<browser, browser_tab, browser_lock, tab_creation_lock, live,
                   nextBrowser, kret>>

\* A caller starts one of the kernel's operations.
KernelCall(c) == KernelCallOf(c, KernelOps)

\* A request handler asks for the browser or for the tab.
HandleCall(c) == KernelCallOf(c, {"get_browser", "get_tab"})

\* get_browser returns, and a get_tab that called it keeps its lock.
GetBrowserReturn_KeepsTabLock(c, b) ==
    /\ browser_lock' = NoCaller
    /\ kret' = [kret EXCEPT ![c] = b]
    /\ kpc' = [kpc EXCEPT ![c] = "idle"]
    /\ IF kop[c] = "get_tab"
       THEN /\ browser_tab' = b
            /\ UNCHANGED tab_creation_lock
       ELSE UNCHANGED <<browser_tab, tab_creation_lock>>

\* What happens when get_browser returns b to caller c: a direct caller gets b;
\* get_tab stores tabs[0] of b in _browser_tab, returns it and leaves its lock.
GetBrowserReturn(c, b) ==
    /\ browser_lock' = NoCaller
    /\ kret' = [kret EXCEPT ![c] = b]
    /\ kpc' = [kpc EXCEPT ![c] = "idle"]
    /\ IF kop[c] = "get_tab"
       THEN /\ browser_tab' = b
            /\ tab_creation_lock' = NoCaller
       ELSE UNCHANGED <<browser_tab, tab_creation_lock>>

\* get_browser, from taking _browser_lock to its first suspension: a healthy
\* browser is returned, a dead one is closed, a missing one is created.
gb_enter(c) ==
    /\ kpc[c] = "gb_lock"
    /\ browser_lock = NoCaller
    /\ UNCHANGED kop
    /\ IF browser # NoBrowser
       THEN \E alive \in is_browser_alive(browser) :
              IF alive
              THEN /\ GetBrowserReturn(c, browser)
                   /\ UNCHANGED <<browser, live, nextBrowser, kloc>>
              ELSE /\ browser_lock' = c
                   /\ kloc' = [kloc EXCEPT ![c] = browser]
                   /\ kpc' = [kpc EXCEPT ![c] = "gb_closing"]
                   /\ UNCHANGED <<browser, browser_tab, tab_creation_lock, live,
                                  nextBrowser, kret>>
       ELSE /\ browser_lock' = c
            /\ live' \in pkill(live)
            /\ kpc' = [kpc EXCEPT ![c] = "gb_starting"]
            /\ UNCHANGED <<browser, browser_tab, tab_creation_lock, nextBrowser,
                           kloc, kret>>

\* get_browser after `await _browser.close()`: both globals are cleared and
\* _create_browser begins (pkill, then the start-up sleeps).
gb_closed(c) ==
    /\ kpc[c] = "gb_closing"
    /\ browser' = NoBrowser
    /\ browser_tab' = NoBrowser
    /\ live' \in pkill(live \ {kloc[c]})
    /\ kpc' = [kpc EXCEPT ![c] = "gb_starting"]
    /\ UNCHANGED <<browser_lock, tab_creation_lock, nextBrowser, kop, kloc, kret>>

\* _create_browser after zd.start(): the new browser becomes _browser.
gb_started(c) ==
    /\ kpc[c] = "gb_starting"
    /\ nextBrowser <= MaxBrowsers
    /\ live' = live \cup {nextBrowser}
    /\ browser' = nextBrowser
    /\ nextBrowser' = nextBrowser + 1
    /\ GetBrowserReturn(c, nextBrowser)
    /\ UNCHANGED <<kop, kloc>>

\* get_tab, the unlocked quick check: with a tab handle set, its probe is
\* awaited; without one the caller goes for the lock.
gt_quick(c) ==
    /\ kpc[c] = "gt_quick"
    /\ kpc' = [kpc EXCEPT ![c] = IF browser_tab # NoBrowser THEN "gt_quick_probed"
                                  ELSE "gt_lock"]
    /\ kloc' = [kloc EXCEPT ![c] = browser_tab]
    /\ UNCHANGED <<browser, browser_tab, browser_lock, tab_creation_lock, live,
                   nextBrowser, kop, kret>>

\* get_tab after the quick probe: a live tab returns the global handle as it
\* is now.
gt_quick_probed(c) ==
    /\ kpc[c] = "gt_quick_probed"
    /\ IF is_tab_alive(kloc[c])
       THEN /\ kret' = [kret EXCEPT ![c] = browser_tab]
            /\ kpc' = [kpc EXCEPT ![c] = "idle"]
       ELSE /\ kpc' = [kpc EXCEPT ![c] = "gt_lock"]
            /\ UNCHANGED kret
    /\ UNCHANGED <<browser, browser_tab, browser_lock, tab_creation_lock, live,
                   nextBrowser, kop, kloc>>

\* get_tab takes _tab_creation_lock and re-checks: with a handle set its probe
\* is awaited, otherwise get_browser is called.
gt_lock(c) ==
    /\ kpc[c] = "gt_lock"
    /\ tab_creation_lock = NoCaller
    /\ tab_creation_lock' = c
    /\ kloc' = [kloc EXCEPT ![c] = browser_tab]
    /\ kpc' = [kpc EXCEPT ![c] = IF browser_tab # NoBrowser THEN "gt_recheck_probed"
                                  ELSE "gb_lock"]
    /\ UNCHANGED <<browser, browser_tab, browser_lock, live, nextBrowser, kop, kret>>

\* get_tab after the probe under the lock: a live tab is returned, a dead one
\* is forgotten and get_browser is called.
gt_recheck_probed(c) ==
    /\ kpc[c] = "gt_recheck_probed"
    /\ IF is_tab_alive(kloc[c])
       THEN /\ kret' = [kret EXCEPT ![c] = browser_tab]
            /\ kpc' = [kpc EXCEPT ![c] = "idle"]
            /\ tab_creation_lock' = NoCaller
            /\ UNCHANGED browser_tab
       ELSE /\ browser_tab' = NoBrowser
            /\ kpc' = [kpc EXCEPT ![c] = "gb_lock"]
            /\ UNCHANGED <<kret, tab_creation_lock>>
    /\ UNCHANGED <<browser, browser_lock, live, nextBrowser, kop, kloc>>

\* cleanup up to `await _browser.close()`; no lock is taken.  The process may
\* be gone as soon as close is issued or only when it returns.
cl_start(c) ==
    /\ kpc[c] = "cl_start"
    /\ IF browser # NoBrowser
       THEN /\ kloc' = [kloc EXCEPT ![c] = browser]
            /\ kpc' = [kpc EXCEPT ![c] = "cl_closing"]
            /\ live' \in {live, live \ {browser}}
       ELSE /\ kpc' = [kpc EXCEPT ![c] = "idle"]
            /\ UNCHANGED <<kloc, live>>
    /\ UNCHANGED <<browser, browser_tab, browser_lock, tab_creation_lock,
                   nextBrowser, kop, kret>>

\* cleanup's finally block: both globals are cleared.
cl_closed(c) ==
    /\ kpc[c] = "cl_closing"
    /\ live' = live \ {kloc[c]}
    /\ browser' = NoBrowser
    /\ browser_tab' = NoBrowser
    /\ kpc' = [kpc EXCEPT ![c] = "idle"]
    /\ UNCHANGED <<browser_lock, tab_creation_lock, nextBrowser, kop, kloc, kret>>

\* The browser process dies on its own.
BrowserCrash ==
    /\ \E b \in live : live' = live \ {b}
    /\ UNCHANGED <<browser, browser_tab, browser_lock, tab_creation_lock,
                   nextBrowser, kpc, kop, kloc, kret>>

\* C2: at most one browser process exists at any time, whatever the
\* interleaving of get_browser, get_tab and cleanup.
C2_SingleBrowser == Cardinality(live) <= 1

\* The handle whose health probe failed during the call of caller c that is
\* about to return from get_browser, if any: get_browser notes the browser it
\* found dead, get_tab the tab it found dead.
ProbeFailedIn(c) ==
    /\ kpc[c] \in {"gb_lock", "gb_starting"}
    /\ kloc[c] # NoBrowser

\* C25: when a health probe failed during a call of the kernel, then by the
\* time the call returns the browser that failed it has been torn down and is
\* no longer the browser the kernel serves, so that the caller is not handed
\* the dead browser again.
C25_ProbeFailureRecovers ==
    [][\A c \in Callers :
          (ProbeFailedIn(c) /\ kpc'[c] = "idle") =>
              /\ kloc[c] \notin live'
              /\ browser' # kloc[c]
              /\ kret'[c] # kloc[c]]_vars

\* The caller waits for a lock (asyncio.Lock hands a released lock to its
\* waiters in the order they came).
WaitsForTabLock(c) == kpc[c] = "gt_lock"
WaitsForBrowserLock(c) == kpc[c] = "gb_lock"

\* C31: _tab_creation_lock is never awaited by a caller that holds
\* _browser_lock (the two locks are only ever taken in the order tab lock,
\* browser lock), and every call of get_browser, get_tab or cleanup that has
\* begun returns, as long as the browser start-ups it waits for come to an
\* end.
C31_NoDeadlock ==
    /\ [](\A c \in Callers :
            /\ WaitsForTabLock(c) => browser_lock # c
            /\ WaitsForBrowserLock(c) => browser_lock # c)
    /\ \A c \in Callers :
         (kpc[c] # "idle") ~> (kpc[c] = "idle" \/ nextBrowser > MaxBrowsers)

\* A get_tab call holds both locks while another caller waits for one.
C31_Witness ==
    \E c \in Callers, d \in Callers :
       /\ c # d
       /\ tab_creation_lock = c /\ browser_lock = c
       /\ kop[c] = "get_tab" /\ kloc[c] # NoBrowser
       /\ WaitsForBrowserLock(d) \/ WaitsForTabLock(d)

MaxTabId == 5
\* Ceiling on simultaneously open background tabs (spec 4.5).
MaxBackgroundTabs == 3

MainTabId == 0
NoTab == MainTabId - 1
TabUrls == {"u1", "u2"}
\* tab_index values a close request may carry
TabIndexes == -1 .. (MaxBackgroundTabs + 1)

TabRec(id, url) == [id |-> id, url |-> url]

\* Remove the i-th element (1-based) of a sequence.
RemoveAt(s, i) == [j \in 1 .. (Len(s) - 1) |-> IF j < i THEN s[j] ELSE s[j + 1]]

TabResponse(op, idx, status, closed, total) ==
    [op |-> op, idx |-> idx, status |-> status, closed |-> closed, total |-> total,
     listing |-> <<>>]

IdleTabs ==
    /\ tabs = <<TabRec(MainTabId, "u1")>>
    /\ nextTabId = 1
    /\ tabResp = TabResponse("none", NoTab, "none", NoTab, 1)

InitTabs == IdleTabs

create_background_tab_NoCeiling(url) ==
    /\ tabs' = Append(tabs, TabRec(nextTabId, url))
    /\ nextTabId' = nextTabId + 1
    /\ tabResp' = TabResponse("open", Len(tabs), "200", NoTab, Len(tabs) + 1)

\* BrowserManager.create_background_tab: opens url in a new tab behind tab 0,
\* refused at the ceiling; returns (tab_index, total_tabs).
create_background_tab(url) ==
    IF Len(tabs) - 1 < MaxBackgroundTabs
    THEN /\ tabs' = Append(tabs, TabRec(nextTabId, url))
         /\ nextTabId' = nextTabId + 1
         /\ tabResp' = TabResponse("open", Len(tabs), "200", NoTab, Len(tabs) + 1)
    ELSE /\ UNCHANGED <<tabs, nextTabId>>
         /\ tabResp' = TabResponse("open", NoTab, "500", NoTab, Len(tabs))

\* POST /tabs/open_background (and OpenBackgroundTabTool.forward, which only
\* relays the request and the response).
open_background_tab ==
    /\ nextTabId <= MaxTabId
    /\ \E url \in TabUrls : create_background_tab(url)

\* GET /tabs/list: index, is_main_tab (idx == 0), closeable (idx != 0).
TabListing == [i \in 1 .. Len(tabs) |->
                  [index |-> i - 1, url |-> tabs[i].url,
                   is_main_tab |-> (i - 1 = 0), closeable |-> (i - 1 # 0)]]

list_tabs ==
    /\ tabResp' = [TabResponse("list", NoTab, "200", NoTab, Len(tabs))
                       EXCEPT !.listing = TabListing]
    /\ UNCHANGED <<tabs, nextTabId>>

\* A close_tab without the tab-0 check: any index in range is closed.
close_tab_NoZeroCheck(idx) ==
    IF idx < 0 \/ idx >= Len(tabs)
    THEN /\ tabResp' = TabResponse("close", idx, "400", NoTab, Len(tabs))
         /\ UNCHANGED <<tabs, nextTabId>>
    ELSE /\ tabs' = RemoveAt(tabs, idx + 1)
         /\ tabResp' = TabResponse("close", idx, "200", tabs[idx + 1].id, Len(tabs) - 1)
         /\ UNCHANGED nextTabId

\* POST /tabs/close
close_tab(idx) ==
    IF idx = 0
    THEN /\ tabResp' = TabResponse("close", idx, "400", NoTab, Len(tabs))
         /\ UNCHANGED <<tabs, nextTabId>>
    ELSE IF idx < 0 \/ idx >= Len(tabs)
    THEN /\ tabResp' = TabResponse("close", idx, "400", NoTab, Len(tabs))
         /\ UNCHANGED <<tabs, nextTabId>>
    ELSE /\ tabs' = RemoveAt(tabs, idx + 1)
         /\ tabResp' = TabResponse("close", idx, "200", tabs[idx + 1].id, Len(tabs) - 1)
         /\ UNCHANGED nextTabId

CloseTabRoute == \E idx \in TabIndexes : close_tab(idx)

\* CloseTabTool.forward: refuses index 0 before any request is sent.
CloseTabTool ==
    \E idx \in TabIndexes :
        IF idx = 0
        THEN /\ tabResp' = TabResponse("close", idx, "tool_error", NoTab, Len(tabs))
             /\ UNCHANGED <<tabs, nextTabId>>
        ELSE close_tab(idx)

\* C1: after any sequence of open-background-tab, list-tabs and close-tab
\* operations tab 0 (the main tab) is still the first tab of the browser, and a
\* close request for index 0 is rejected and has closed no tab.
C1_TabZeroSacred ==
    /\ Len(tabs) >= 1
    /\ tabs[1].id = MainTabId
    /\ (tabResp.op = "close" /\ tabResp.idx = 0) =>
           (tabResp.status \in {"400", "tool_error"} /\ tabResp.closed = NoTab)

\* close(0) was just rejected while two background tabs were open.
C1_Witness ==
    /\ tabResp.op = "close" /\ tabResp.idx = 0 /\ tabResp.status = "400"
    /\ Len(tabs) = 3

\* C24: after every step there are at most MaxBackgroundTabs background
\* tabs, and a request to open a background tab that finds that many open
\* leaves the tabs as they are and is answered with an error.
C24_BackgroundTabCeiling ==
    [][/\ Len(tabs') - 1 <= MaxBackgroundTabs
       /\ (/\ tabResp'.op = "open"
           /\ Len(tabs) - 1 = MaxBackgroundTabs) =>
              /\ tabs' = tabs
              /\ tabResp'.status # "200"]_vars

\* A request to open a background tab was refused with three of them open.
C24_Witness ==
    /\ tabResp.op = "open"
    /\ tabResp.status = "500"
    /\ Len(tabs) - 1 = MaxBackgroundTabs

(***************************************************************************)
(* Agent orchestrator: AgentManager.run_agent_streaming, cancel_agent and  *)
(* get_last_result, the /api/chat and /api/agent/last-result routes, and   *)
(* SafeCodeAgent.run in its worker thread.  A run is one call of           *)
(* run_agent_streaming: an async generator (the subscriber's stream), the  *)
(* asyncio task it creates, and the thread asyncio.to_thread runs          *)
(* agent.run in.                                                           *)
(***************************************************************************)

MaxRuns == 2
MaxRequestId == 1
MaxTicks == 2
stream_chunk_size == 2
LastResultMaxAge == 300
NoRun == 0
NoRequestId == 0

Runs == 1 .. MaxRuns
RequestIds == 1 .. MaxRequestId
TickSteps == {1, LastResultMaxAge}

\* Text is a sequence of characters; the answers an agent may pass to
\* final_answer include the empty string.
Answers == {<< >>, <<"a", "b", "c">>}
NoneText == <<"None">>
ExhaustedText == <<"!", "?", "!">>
RequestCancelled == <<"Request cancelled">>
AgentError == <<"Agent error">>

\* What one super().run(task) of the underlying CodeAgent ends with: a result
\* whose output is the final answer, a result with no output (max_steps was
\* reached without final_answer), or an exception.
RunResult(kind, text) == [kind |-> kind, text |-> text]
NoResult == RunResult("none", << >>)
AgentOutcomes ==
    {RunResult("answer", t) : t \in Answers}
        \cup {RunResult("no_output", << >>), RunResult("raise", << >>)}

Event(type, data) == [type |-> type, data |-> data]

IdleRun ==
    [gen |-> "unborn", via |-> "none", request_id |-> NoRequestId,
     task |-> "none", thread |-> "none", attempts |-> << >>,
     result |-> NoResult, status |-> "none", formatted_result |-> << >>,
     pos |-> 0, events |-> << >>, disconnected |-> FALSE,
     ran_after_cancel |-> FALSE]

IdleAgent ==
    /\ active_tasks = [id \in RequestIds |-> NoRun]
    /\ last_result = NoneText
    /\ last_result_time = 0
    /\ last_query = NoRun
    /\ runs = [r \in Runs |-> IdleRun]
    /\ lastResultResp = [called |-> FALSE]
    /\ cancelResp = [called |-> FALSE]
    /\ lastCompleted = [run |-> NoRun, at |-> 0, answer |-> << >>]
    /\ clock = 1
    /\ ticks = 0

InitAgent == IdleAgent

\* lastResultResp and cancelResp hold the response of the request the last
\* step served; a step that serves neither request leaves them empty.
NoResponse ==
    /\ lastResultResp' = [called |-> FALSE]
    /\ cancelResp' = [called |-> FALSE]

Min(a, b) == IF a <= b THEN a ELSE b

\* SafeCodeAgent._has_final_answer
_has_final_answer(result) == result.kind = "answer"

\* The task string of a run, and that of the second attempt: the first one with
\* the finalization instruction appended.
full_query == <<"User: query">>
enhanced_task(task) == task \o <<"IMPORTANT: End with final_answer(your_result)">>

\* SafeCodeAgent.run: the agent is run a second time when the first attempt
\* (and only the first) ended without a final answer.
retry_needed_WhileNoAnswer(result, attempt) ==
    ~_has_final_answer(result) /\ attempt <= 2

retry_needed(result, attempt) ==
    ~_has_final_answer(result) /\ attempt = 1

\* run_agent_streaming, result extraction: the final answer when the result has
\* an output, otherwise the "reached max_steps without final_answer" message.
formatted_result(result) ==
    IF result.kind = "answer" THEN result.text ELSE ExhaustedText

\* The Run status the result stands for ("incomplete" is the code's name for
\* an exhausted run).
result_status(result) ==
    IF result.kind = "answer" /\ result.text # << >> THEN "completed" ELSE "incomplete"

\* The finally block of run_agent_streaming.
unregister(tasks, request_id) ==
    IF request_id # NoRequestId /\ tasks[request_id] # NoRun
    THEN [tasks EXCEPT ![request_id] = NoRun]
    ELSE tasks

\* run_agent_streaming up to its first wait on the agent task: the agent is
\* created, agent.run is started in a worker thread as an asyncio task, and the
\* task is registered when the caller gave a request id.
run_agent_streaming(r, via, request_id) ==
    /\ runs[r].gen = "unborn"
    /\ \A q \in Runs : q < r => runs[q].gen # "unborn"
    /\ runs' = [runs EXCEPT ![r] =
                   [@ EXCEPT !.gen = "waiting", !.via = via,
                             !.request_id = request_id,
                             !.task = "running", !.thread = "running",
                             !.attempts = <<[task |-> full_query,
                                             outcome |-> "running"]>>]]
    /\ active_tasks' = IF request_id # NoRequestId
                       THEN [active_tasks EXCEPT ![request_id] = r]
                       ELSE active_tasks
    /\ NoResponse
    /\ UNCHANGED <<last_result, last_result_time, last_query,
                   lastCompleted, clock, ticks>>

\* POST /api/chat: the route calls run_agent_streaming(message, history) and
\* passes no request id.
chat_endpoint(r) == run_agent_streaming(r, "chat", NoRequestId)

\* A caller of AgentManager.run_agent_streaming that passes a request id.
StreamingCall(r, request_id) == run_agent_streaming(r, "api", request_id)

\* The generator resumes from its wait with the task's result: it formats the
\* result, stores it in the last-result slot and goes on to stream it.
ProcessResult(run, r, result) ==
    [run EXCEPT !.task = "done", !.thread = "finished", !.result = result,
                !.gen = "streaming",
                !.formatted_result = formatted_result(result),
                !.status = result_status(result), !.pos = 0]

\* The awaited task raised: the generator yields an error event and ends; its
\* finally block runs.
ProcessFailure(run, result) ==
    [run EXCEPT !.task = "failed", !.thread = "finished", !.result = result,
                !.gen = "ended", !.status = "failed",
                !.events = Append(@, Event("error", AgentError))]

\* One super().run(task) of SafeCodeAgent.run returns or raises in the worker
\* thread.  The thread is not stopped by cancelling the asyncio task, and the
\* task is not stopped by the generator going away.  When the thread ends, the
\* task completes and a generator waiting for it resumes at once.
AgentRunStep(r, outcome) ==
    LET run == runs[r]
        n == Len(run.attempts)
        tried == [run.attempts EXCEPT ![n].outcome = outcome.kind]
        after == [run EXCEPT !.attempts = tried,
                             !.ran_after_cancel = (run.task = "cancelled")]
        listening == run.task = "running" /\ run.gen = "waiting"
    IN
    /\ run.thread = "running"
    /\ IF outcome.kind # "raise" /\ retry_needed(outcome, n)
       THEN /\ runs' = [runs EXCEPT ![r] =
                           [after EXCEPT !.attempts =
                               Append(tried, [task |-> enhanced_task(tried[1].task),
                                              outcome |-> "running"])]]
            /\ UNCHANGED <<active_tasks, last_result, last_result_time,
                           last_query, lastCompleted>>
       ELSE /\ runs' = [runs EXCEPT ![r] =
                  IF run.task # "running"
                  THEN [after EXCEPT !.thread = "finished", !.result = outcome]
                  ELSE IF outcome.kind = "raise"
                  THEN IF listening
                       THEN ProcessFailure(after, outcome)
                       ELSE [after EXCEPT !.task = "failed", !.thread = "finished",
                                          !.result = outcome]
                  ELSE IF listening
                       THEN ProcessResult(after, r, outcome)
                       ELSE [after EXCEPT !.task = "done", !.thread = "finished",
                                          !.result = outcome]]
            /\ IF listening /\ outcome.kind # "raise"
               THEN /\ last_result' = formatted_result(outcome)
                    /\ last_result_time' = clock
                    /\ last_query' = r
               ELSE UNCHANGED <<last_result, last_result_time, last_query>>
            /\ active_tasks' = IF listening /\ outcome.kind = "raise"
                               THEN unregister(active_tasks, run.request_id)
                               ELSE active_tasks
            /\ lastCompleted' =
                   IF run.task = "running" /\ outcome.kind = "answer"
                   THEN [run |-> r, at |-> clock, answer |-> outcome.text]
                   ELSE lastCompleted
    /\ NoResponse
    /\ UNCHANGED <<clock, ticks>>

\* formatted_result[i:i+self.stream_chunk_size], for i counted from 0.
chunk_ToTheEnd(text, i) == SubSeq(text, i + 1, Len(text))
chunk(text, i) == SubSeq(text, i + 1, Min(i + stream_chunk_size, Len(text)))

\* The generator yields the next chunk of the formatted result.
stream_chunk(r) ==
    LET run == runs[r]
        last == Min(run.pos + stream_chunk_size, Len(run.formatted_result))
    IN
    /\ run.gen = "streaming"
    /\ run.pos < Len(run.formatted_result)
    /\ runs' = [runs EXCEPT ![r] =
                   [run EXCEPT !.pos = last,
                               !.events = Append(@, Event("content",
                                   chunk(run.formatted_result, run.pos)))]]
    /\ NoResponse
    /\ UNCHANGED <<active_tasks, last_result, last_result_time, last_query,
                   lastCompleted, clock, ticks>>

\* After the last chunk the generator yields the done event and ends; its
\* finally block runs.
stream_done(r) ==
    LET run == runs[r] IN
    /\ run.gen = "streaming"
    /\ run.pos >= Len(run.formatted_result)
    /\ runs' = [runs EXCEPT ![r] =
                   [run EXCEPT !.gen = "ended",
                               !.events = Append(@, Event("done", << >>))]]
    /\ active_tasks' = unregister(active_tasks, run.request_id)
    /\ NoResponse
    /\ UNCHANGED <<last_result, last_result_time, last_query,
                   lastCompleted, clock, ticks>>

\* event_generator of the chat route: when run_agent_streaming has ended, it
\* yields a done event of its own.
event_generator_done(r) ==
    LET run == runs[r] IN
    /\ run.gen = "ended"
    /\ run.via = "chat"
    /\ runs' = [runs EXCEPT ![r] =
                   [run EXCEPT !.gen = "closed",
                               !.events = Append(@, Event("done", << >>))]]
    /\ NoResponse
    /\ UNCHANGED <<active_tasks, last_result, last_result_time, last_query,
                   lastCompleted, clock, ticks>>

\* The disconnect that cancels the wait of the generator: with the task
\* shielded, the cancellation stops at the shield.
shield_Unshielded(task) == IF task = "running" THEN "cancelled" ELSE task

shield(task) == task

\* The subscriber disconnects: CancelledError is raised in the generator at
\* its current suspension point; the generator stops and its finally block
\* runs.
Disconnect(r) ==
    LET run == runs[r] IN
    /\ run.gen \in {"waiting", "streaming"}
    /\ runs' = [runs EXCEPT ![r] =
                   [run EXCEPT !.gen = "closed", !.disconnected = TRUE,
                               !.task = shield(run.task)]]
    /\ active_tasks' = unregister(active_tasks, run.request_id)
    /\ NoResponse
    /\ UNCHANGED <<last_result, last_result_time, last_query,
                   lastCompleted, clock, ticks>>

\* AgentManager.cancel_agent: a registered task that is not done is cancelled
\* (the generator waiting on it yields "Request cancelled" and ends, its
\* finally block runs); anything else returns False.
cancel_agent(request_id) ==
    LET r == active_tasks[request_id]
        found == r # NoRun /\ runs[r].task = "running"
    IN
    /\ cancelResp' = [called |-> TRUE, request_id |-> request_id, ret |-> found]
    /\ lastResultResp' = [called |-> FALSE]
    /\ IF found
       THEN /\ runs' = [runs EXCEPT ![r] =
                           [@ EXCEPT !.task = "cancelled", !.gen = "ended",
                                     !.status = "cancelled",
                                     !.events = Append(@, Event("error",
                                                                RequestCancelled))]]
            /\ active_tasks' = unregister(active_tasks, request_id)
       ELSE UNCHANGED <<runs, active_tasks>>
    /\ UNCHANGED <<last_result, last_result_time, last_query,
                   lastCompleted, clock, ticks>>

\* AgentManager.get_last_result: nothing when the slot is empty (None or an
\* empty string) or older than max_age_seconds.
get_last_result(max_age_seconds) ==
    LET age == clock - last_result_time IN
    IF last_result \in {NoneText, << >>} \/ last_result_time = 0
    THEN [none |-> TRUE]
    ELSE IF age > max_age_seconds
    THEN [none |-> TRUE]
    ELSE [none |-> FALSE, result |-> last_result, query |-> last_query,
          timestamp |-> last_result_time, age_seconds |-> age]

\* GET /api/agent/last-result.  With the response the model records what the
\* most recently completed run was when the request was served, and whether
\* it had completed within the last LastResultMaxAge seconds.
LastResultRoute ==
    LET result == get_last_result(LastResultMaxAge) IN
    /\ lastResultResp' =
           [called |-> TRUE,
            has_result |-> ~result.none,
            result |-> IF result.none THEN NoneText ELSE result.result,
            completed_run |-> lastCompleted.run,
            completed_answer |-> lastCompleted.answer,
            completed_recently |-> /\ lastCompleted.run # NoRun
                                   /\ clock - lastCompleted.at <= LastResultMaxAge]
    /\ cancelResp' = [called |-> FALSE]
    /\ UNCHANGED <<active_tasks, last_result, last_result_time, last_query, runs,
                   lastCompleted, clock, ticks>>

\* Time passes.
Tick(d) ==
    /\ ticks < MaxTicks
    /\ clock' = clock + d
    /\ ticks' = ticks + 1
    /\ NoResponse
    /\ UNCHANGED <<active_tasks, last_result, last_result_time, last_query, runs,
                   lastCompleted>>

\* C3: a subscriber disconnect never cancels a Run: the task of a run whose
\* subscriber disconnected is not cancelled, and it is still running exactly as
\* long as the agent thread is; it ends only done or failed.
C3_DisconnectNeverCancels ==
    \A r \in Runs :
        runs[r].disconnected =>
            /\ runs[r].task \in {"running", "done", "failed"}
            /\ (runs[r].task = "running") <=> (runs[r].thread = "running")

\* The subscriber left while the agent was working, and the run went on through
\* a retry to a final answer.
C3_Witness ==
    \E r \in Runs :
        /\ runs[r].disconnected
        /\ runs[r].status = "none"
        /\ runs[r].task = "done"
        /\ Len(runs[r].attempts) = 2
        /\ runs[r].result.kind = "answer"

\* C4: when a Run whose subscriber disconnected mid-run finishes, its result is
\* stored: the last-result slot is eventually populated.
C4_SlotEventuallyPopulated ==
    \A r \in Runs :
        (runs[r].disconnected /\ runs[r].status = "none" /\ runs[r].task = "done")
            ~> (last_result # NoneText)

\* C5: the last-result request returns a result if and only if a Run has
\* completed within the last LastResultMaxAge seconds, and the result it returns
\* is the answer of the most recently completed Run.
C5_LastResultRecent ==
    lastResultResp.called =>
        /\ lastResultResp.has_result <=> lastResultResp.completed_recently
        /\ lastResultResp.has_result =>
               lastResultResp.result = lastResultResp.completed_answer

\* C6: every Run started through the chat interface is registered as a
\* cancellable task under a Run-ID while it executes, and a cancelled Run does
\* no further work.
C6_ChatRunCancellable ==
    \A r \in Runs :
        /\ (runs[r].via = "chat" /\ runs[r].task = "running") =>
               \E id \in RequestIds : active_tasks[id] = r
        /\ runs[r].task = "cancelled" => ~runs[r].ran_after_cancel

\* C8: an attempt that ends without a final answer is retried exactly once, with
\* the finalization instruction appended to the task; a retry that also lacks a
\* final answer leaves the run exhausted, and there is no third attempt.
C8_RetryOnce ==
    \A r \in Runs :
        LET a == runs[r].attempts IN
        /\ Len(a) <= 2
        /\ Len(a) = 2 =>
               /\ a[1].outcome = "no_output"
               /\ a[2].task = enhanced_task(a[1].task)
               /\ a[2].task # a[1].task
        /\ (runs[r].thread = "finished" /\ a[1].outcome = "no_output") =>
               Len(a) = 2
        /\ (runs[r].thread = "finished" /\ runs[r].result.kind = "no_output") =>
               (Len(a) = 2 /\ a[2].outcome = "no_output")
        /\ (runs[r].result.kind = "no_output"
                /\ runs[r].status \notin {"none", "cancelled"}) =>
               /\ runs[r].status = "incomplete"
               /\ runs[r].formatted_result = ExhaustedText

\* Both attempts of a run ended without a final answer and the run was reported
\* as exhausted.
C8_Witness ==
    \E r \in Runs :
        /\ runs[r].thread = "finished"
        /\ Len(runs[r].attempts) = 2
        /\ runs[r].attempts[2].outcome = "no_output"
        /\ runs[r].status = "incomplete"
        /\ runs[r].formatted_result = ExhaustedText

\* C22: in the events delivered to one subscription an error event is the
\* last event, a done event is the last event, so that there is at most one
\* and none after an error, and a subscription that ended without an error
\* and without the subscriber leaving ends with a done event.
C22_ErrorTerminalDoneOnce ==
    \A r \in Runs :
        LET events == runs[r].events IN
        /\ \A i \in 1 .. Len(events) :
               events[i].type \in {"error", "done"} => i = Len(events)
        /\ (/\ runs[r].gen \in {"ended", "closed"}
            /\ ~runs[r].disconnected
            /\ \A i \in 1 .. Len(events) : events[i].type # "error") =>
               /\ events # << >>
               /\ events[Len(events)].type = "done"

\* The content events of a run in the order of their delivery, and the text
\* they carry put end to end.
ContentEvents(r) == SelectSeq(runs[r].events, LAMBDA e : e.type = "content")

RECURSIVE Concatenation(_)
Concatenation(events) ==
    IF events = << >> THEN << >>
    ELSE events[1].data \o Concatenation(Tail(events))

\* C23: the content events of a subscription carry the formatted final
\* answer in order: every one but the last is exactly stream_chunk_size long,
\* the last is not empty and not longer, what has been delivered is at every
\* moment the beginning of the formatted answer, and once the done event of
\* the stream is out it is the whole of it.
C23_ChunksCarryAnswer ==
    \A r \in Runs :
        LET contents == ContentEvents(r)
            text == runs[r].formatted_result
            delivered == Concatenation(contents)
        IN
        /\ \A i \in 1 .. Len(contents) :
               /\ i < Len(contents) =>
                      Len(contents[i].data) = stream_chunk_size
               /\ Len(contents[i].data) \in 1 .. stream_chunk_size
        /\ Len(delivered) <= Len(text)
        /\ delivered = SubSeq(text, 1, Len(delivered))
        /\ (\E i \in 1 .. Len(runs[r].events) :
                runs[r].events[i].type = "done"
                /\ \A j \in 1 .. i : runs[r].events[j].type # "error") =>
               delivered = text

\* A subscription received its answer in more than one content event, the
\* last of them shorter than the others, and then its done event.
C23_Witness ==
    \E r \in Runs :
        LET contents == ContentEvents(r) IN
        /\ Len(contents) >= 2
        /\ Len(contents[Len(contents)].data) < stream_chunk_size
        /\ runs[r].events[Len(runs[r].events)].type = "done"

\* C35: the last-result slot (result, timestamp, task) changes only in the
\* step in which a run completes with a final answer, and then it holds that
\* run; a run that ends exhausted, failed or cancelled leaves the slot as it
\* was.
C35_SlotOnlyOnFinalAnswer ==
    [][<<last_result, last_result_time, last_query>>'
            # <<last_result, last_result_time, last_query>> =>
         \E r \in Runs :
            /\ runs[r].task = "running" /\ runs'[r].task = "done"
            /\ runs'[r].result.kind = "answer"
            /\ last_query' = r]_vars

\* C36: a run started under a request id of its own stays registered under
\* that id for as long as its task is executing, also after its subscriber
\* has disconnected; the registry entry goes only once the run has finished.
C36_RegisteredWhileExecuting ==
    \A r \in Runs :
        (/\ runs[r].request_id # NoRequestId
         /\ runs[r].task = "running"
         /\ \A q \in Runs \ {r} : runs[q].request_id # runs[r].request_id)
        => active_tasks[runs[r].request_id] = r

(***************************************************************************)
(* Code-Repair Pass: SafeCodeAgent.execute, _auto_repair_code and          *)
(* _restructure_code.  A code block is its sequence of lines               *)
(* (code.split('\n'), never empty: the empty string is one empty line) and *)
(* a line is the sequence of the fragments of text the pass tells apart.   *)
(***************************************************************************)

MaxLines == 4

\* Fragments: the two final_answer calls, a comment marker, statements, prose
\* and the markup the pass removes.
CallAtoms == {"final_answer(A)", "final_answer(B)"}
NameAtoms == CallAtoms \cup {"note = no final_answer yet"}
EqualsAtoms == {"x = 1", "note = no final_answer yet"}
StartAtoms == {"import os", "web_search(q)", "visit_webpage(u)",
               "extract_content(s)", "navigate_browser(u)",
               "click_element(s)", "type_text(t)"}
TriggerAtoms == {"web_search(q)", "visit_webpage(u)", "extract_content(s)"}
StatementAtoms == EqualsAtoms \cup StartAtoms \cup {"print(x)"}
FenceAtoms == {"[fence]python", "[fence]"}
BacktickAtoms == {"[backtick] tags and ensure", "[backtick] tags"}

BlankLine == << >>
EmptyCode == <<BlankLine>>

\* The lines a block is made of in this model.
Lines ==
    { <<"final_answer(A)">>, <<"final_answer(B)">>,
      <<"#", "final_answer(A)">>,
      <<"print(x)">>, <<"x = 1">>, <<"navigate_browser(u)">>,
      <<"Let me search for it">>,
      BlankLine, <<"<code>">>, <<"</code>">>, <<"[fence]">> }

Blocks == UNION {[1 .. n -> Lines] : n \in 1 .. MaxLines}

HasAtom(line, S) == \E i \in 1 .. Len(line) : line[i] \in S
WithoutAtoms(line, S) == SelectSeq(line, LAMBDA a : a \notin S)
IsComment(line) == Len(line) > 0 /\ line[1] = "#"
Indexes(lines, Test(_)) == {i \in 1 .. Len(lines) : Test(lines[i])}
MinOf(S) == CHOOSE i \in S : \A j \in S : i <= j
MaxOf(S) == CHOOSE i \in S : \A j \in S : i >= j
From(lines, i) == SubSeq(lines, i, Len(lines))

\* code.count of final_answer
CountName(lines) ==
    Cardinality({<<i, j>> \in (1 .. Len(lines)) \X (1 .. 3) :
                     j <= Len(lines[i]) /\ lines[i][j] \in NameAtoms})

\* lstrip / strip of a block: blank lines at its ends go.
LStrip(lines) ==
    LET code == Indexes(lines, LAMBDA l : l # BlankLine) IN
    IF code = {} THEN EmptyCode ELSE From(lines, MinOf(code))

Strip(lines) ==
    LET code == Indexes(lines, LAMBDA l : l # BlankLine) IN
    IF code = {} THEN EmptyCode ELSE SubSeq(lines, MinOf(code), MaxOf(code))

\* 1. re.sub(r'^.*?<code>\s*', '', code, flags=re.DOTALL): everything up to and
\* including the first <code> goes, with the whitespace that follows it.
RemoveUpToOpeningTag(lines) ==
    LET tagged == Indexes(lines, LAMBDA l : HasAtom(l, {"<code>"})) IN
    IF tagged = {} THEN lines
    ELSE LET i == MinOf(tagged)
             j == MinOf({k \in 1 .. Len(lines[i]) : lines[i][k] = "<code>"})
             rest == SubSeq(lines[i], j + 1, Len(lines[i]))
         IN LStrip(<<rest>> \o From(lines, i + 1))

\* 2. A line that looks like code: a final_answer( anywhere in it, a known
\* call or import at its start, or an = in a line that is no comment.
LooksLikeCode(line) ==
    /\ line # BlankLine
    /\ \/ HasAtom(line, CallAtoms)
       \/ line[1] \in StartAtoms
       \/ (HasAtom(line, EqualsAtoms) /\ ~IsComment(line))

RemoveLeadingExplanation(lines) ==
    LET triggered == \E i \in 1 .. Len(lines) :
                         HasAtom(lines[i], CallAtoms \cup TriggerAtoms)
        starts == Indexes(lines, LooksLikeCode)
    IN IF triggered /\ starts # {} /\ MinOf(starts) > 1
       THEN From(lines, MinOf(starts))
       ELSE lines

\* 3. The backtick artifacts are removed.
RemoveBacktickArtifacts(lines) ==
    [i \in 1 .. Len(lines) |-> WithoutAtoms(lines[i], BacktickAtoms)]

\* 4. After the last non-comment line with final_answer( only blank lines,
\* comments and </code> lines are kept, up to the first other line.
RECURSIVE KeepValidAfter(_)
KeepValidAfter(lines) ==
    IF lines = << >> THEN << >>
    ELSE IF lines[1] = BlankLine \/ IsComment(lines[1]) \/ lines[1] = <<"</code>">>
    THEN <<lines[1]>> \o KeepValidAfter(Tail(lines))
    ELSE << >>

RemoveTextAfterFinalAnswer(lines) ==
    LET calls == Indexes(lines, LAMBDA l : HasAtom(l, CallAtoms) /\ ~IsComment(l))
    IN IF CountName(lines) > 0 /\ calls # {} /\ MaxOf(calls) < Len(lines)
       THEN SubSeq(lines, 1, MaxOf(calls))
                \o KeepValidAfter(From(lines, MaxOf(calls) + 1))
       ELSE lines

\* 5. and 6. The fence markers and the </code> tags are removed.
RemoveMarkup(lines) ==
    [i \in 1 .. Len(lines) |-> WithoutAtoms(lines[i], FenceAtoms \cup {"</code>"})]

\* SafeCodeAgent._auto_repair_code
_auto_repair_code(code) ==
    Strip(RemoveMarkup(RemoveTextAfterFinalAnswer(RemoveBacktickArtifacts(
        RemoveLeadingExplanation(RemoveUpToOpeningTag(code))))))

\* SafeCodeAgent._restructure_code: with more than one non-comment line naming
\* final_answer, the other lines are joined and the last such line appended.
_restructure_code(code) ==
    LET named(l) == HasAtom(l, NameAtoms) /\ ~IsComment(l)
        final_answer_lines == SelectSeq(code, named)
        other_lines == SelectSeq(code, LAMBDA l : ~named(l))
    IN IF Len(final_answer_lines) > 1
       THEN (IF other_lines = << >> THEN EmptyCode ELSE other_lines)
                \o <<final_answer_lines[Len(final_answer_lines)]>>
       ELSE code

\* The code SafeCodeAgent.execute hands to the interpreter.
RepairPass(code) ==
    LET repaired == _auto_repair_code(code) IN
    IF CountName(repaired) > 1 THEN _restructure_code(repaired) ELSE repaired

IdleRepair ==
    /\ last_code = EmptyCode
    /\ executed_code = EmptyCode
    /\ repairPc = "idle"

InitRepair == IdleRepair

\* The model emits a code block for the next step.
EmitCode ==
    /\ repairPc = "idle"
    /\ last_code' \in Blocks
    /\ executed_code' = EmptyCode
    /\ repairPc' = "emitted"

\* SafeCodeAgent.execute
execute ==
    /\ repairPc = "emitted"
    /\ executed_code' = RepairPass(last_code)
    /\ repairPc' = "executed"
    /\ UNCHANGED last_code

\* The step is over; the agent goes on to ask the model for the next block.
StepDone ==
    /\ repairPc = "executed"
    /\ last_code' = EmptyCode
    /\ executed_code' = EmptyCode
    /\ repairPc' = "idle"

\* The non-comment final_answer calls of a block, in order, and its other
\* statements, in order.
RECURSIVE Flatten(_)
Flatten(lines) ==
    IF lines = << >> THEN << >> ELSE lines[1] \o Flatten(Tail(lines))

NonCommentCalls(code) ==
    SelectSeq(Flatten(SelectSeq(code, LAMBDA l : ~IsComment(l))),
              LAMBDA a : a \in CallAtoms)

OtherStatements(code) ==
    SelectSeq(Flatten(SelectSeq(code, LAMBDA l : ~IsComment(l))),
              LAMBDA a : a \in StatementAtoms)

\* C7: when the emitted block has more than one non-comment final_answer call,
\* the code that is executed has exactly one, the last one emitted, on its last
\* line, and every other statement of the block before it in the original
\* order.
C7_LastFinalAnswerSurvives ==
    (repairPc = "executed" /\ Len(NonCommentCalls(last_code)) > 1) =>
        LET calls == NonCommentCalls(last_code) IN
        /\ NonCommentCalls(executed_code) = <<calls[Len(calls)]>>
        /\ executed_code[Len(executed_code)] = <<calls[Len(calls)]>>
        /\ OtherStatements(executed_code) = OtherStatements(last_code)

\* C29: the Code-Repair Pass is idempotent: applied to the code it produced
\* from an emitted block, it returns that code unchanged.
C29_RepairPassIdempotent ==
    repairPc = "executed" => RepairPass(executed_code) = executed_code

(***************************************************************************)
(* Tiered extraction cache: ExtractorCacheService (bypass rules, TTL       *)
(* policy, get_cached_extraction, cache_extraction) over CacheManager (L1: *)
(* Redis when configured, and the process-local BoundedLRUCache) and the   *)
(* DuckDB page store (L2).                                                 *)
(***************************************************************************)

cache_max_items == 3
cache_max_memory == 5
MaxCacheRequests == 3

\* A URL (scheme https) is its host in lower case and whether it is spelled
\* in upper case, its port (":443", ":8080" or none), its path without the
\* trailing slash and whether it ends in one, its query (the parameters in
\* the order written) and whether it has a fragment.
Param(key, value) == <<key, value>>
FullUrl(host, upper, port, path, slash, query, frag) ==
    [host |-> host, upper |-> upper, port |-> port, path |-> path,
     slash |-> slash, query |-> query, frag |-> frag]
Url(host, path, upper, slash, utm, frag) ==
    FullUrl(host, upper, "", path, slash,
            IF utm THEN <<Param("utm_source", "x")>> ELSE << >>, frag)
PlainUrl(host, path) == Url(host, path, FALSE, FALSE, FALSE, FALSE)

\* The (url, selector, context) triples requests are made with.
Request(url, selector, context) ==
    [url |-> url, selector |-> selector, context |-> context]
Requests ==
    { Request(PlainUrl("example.com", "/foo"), "h1", ""),
      Request(Url("example.com", "/foo", TRUE, TRUE, TRUE, TRUE), "h1", ""),
      Request(PlainUrl("example.com", "/foo"), "div.content", ""),
      Request(PlainUrl("example.com", "/foo"), ".price", ""),
      Request(PlainUrl("google.com", "/foo"), "h1", ""),
      Request(PlainUrl("example.com", "/api/x"), "h1", ""),
      Request(PlainUrl("example.com", "/research"), "h1", ""),
      Request(PlainUrl("example.com", "/foo"), "h1", "Search results") }

\* str.lower, on the texts of the model that have upper-case letters.
Lower(text) ==
    CASE text = "UTM_SOURCE" -> "utm_source"
      [] text = "/Foo" -> "/foo"
      [] OTHER -> text

\* The substrings the policies look for, in the lower-cased text of the hosts,
\* paths, selectors and contexts above.  The tracking parameter and the
\* fragment of a URL hold none of them.
Fragments(text) ==
    CASE text = "google.com" -> {"google.com"}
      [] text = "github.com" -> {"github.com"}
      [] text = "/api/x" -> {"/api/"}
      [] text = "/research" -> {"search"}
      [] text = "Search results" -> {"search"}
      [] text = ".price" -> {".price", "."}
      [] text = "div.content" -> {"."}
      [] text = "nav" -> {"nav"}
      [] OTHER -> {}

UrlContainsAny(url, patterns) ==
    (Fragments(url.host) \cup Fragments(Lower(url.path))) \cap patterns # {}

\* ExtractorCacheService.should_bypass_cache
should_bypass_cache_Never(url, selector, context) == FALSE

should_bypass_cache(url, selector, context) ==
    \/ "search" \in Fragments(context)
    \/ UrlContainsAny(url, {"duckduckgo.com", "google.com", "bing.com", "search"})
    \/ UrlContainsAny(url, {"/api/", "/live/", "/current/", "/now/", "/realtime/"})

\* ExtractorCacheService.get_cache_ttl
get_cache_ttl_NoDynamic(url, selector, context) ==
    IF should_bypass_cache(url, selector, context) THEN 0
    ELSE IF Fragments(selector)
                \cap {"nav", "header", "footer", "menu", "form", "input[",
                      "button[", "[role"} # {}
    THEN 86400
    ELSE IF Fragments(selector) \cap {".", "#", "[", ":", ">"} = {}
    THEN 1800
    ELSE 3600

get_cache_ttl(url, selector, context) ==
    IF should_bypass_cache(url, selector, context) THEN 0
    ELSE IF Fragments(selector)
                \cap {".price", ".stock", ".timestamp", ".live", ".current", ".now"} # {}
    THEN 0
    ELSE IF Fragments(selector)
                \cap {"nav", "header", "footer", "menu", "form", "input[",
                      "button[", "[role"} # {}
    THEN 86400
    ELSE IF Fragments(selector) \cap {".", "#", "[", ":", ">"} = {}
    THEN 1800
    ELSE 3600

\* CacheKeyGenerator.generate_cache_key: the normalized URL (host in lower
\* case, no trailing slash, no tracking parameter, no fragment), the selector
\* and the lower-cased context; the truncated hash of the three is taken to be
\* collision free.
EXCLUDED_PARAMS ==
    {"utm_source", "utm_medium", "utm_campaign", "utm_term", "utm_content",
     "fbclid", "gclid", "dclid", "msclkid", "ref", "referrer", "source",
     "_ga", "_gid", "_gac", "timestamp", "ts", "t",
     "session", "sessionid", "sid"}
PARAM_SENSITIVE_DOMAINS == {"youtube.com", "youtu.be", "amazon.com", "github.com"}

\* The order of str on the parameter names and values of the model.
StrOrder == <<"1", "2", "UTM_SOURCE", "a", "b", "utm_id", "utm_source", "x">>
Rank(text) == CHOOSE i \in 1 .. Len(StrOrder) : StrOrder[i] = text

\* CacheKeyGenerator._normalize_query_params: drop the excluded parameters
\* unless the domain holds a parameter-sensitive one, sort the values of
\* each parameter and the parameters by name.
_normalize_query_params_KeepAll(query, domain) ==
    SortSeq(query, LAMBDA p, q : \/ Rank(p[1]) < Rank(q[1])
                                 \/ p[1] = q[1] /\ Rank(p[2]) < Rank(q[2]))

_normalize_query_params(query, domain) ==
    LET is_sensitive == Fragments(domain) \cap PARAM_SENSITIVE_DOMAINS # {}
        kept(p) == is_sensitive \/ Lower(p[1]) \notin EXCLUDED_PARAMS
    IN  SortSeq(SelectSeq(query, kept),
                LAMBDA p, q : \/ Rank(p[1]) < Rank(q[1])
                              \/ p[1] = q[1] /\ Rank(p[2]) < Rank(q[2]))

\* CacheKeyGenerator.normalize_url: the netloc in lower case without the
\* default port, the path without its trailing slash, the normalized query,
\* no fragment.
normalize_url(url) ==
    [host |-> url.host,
     port |-> IF url.port = ":443" THEN "" ELSE url.port,
     path |-> url.path,
     query |-> _normalize_query_params(url.query, url.host)]
_make_url_key(url, selector, context) ==
    [url |-> normalize_url(url), selector |-> selector,
     context |-> IF context = "Search results" THEN "search results" ELSE context]

\* The requests of the runs that look at the TTL and persistence policy: a
\* dynamic selector on a URL written three ways, and selectors cached for
\* half an hour, an hour and a day on the same page.
ScenarioQuery == <<Param("utm_source", "x"), Param("b", "2"), Param("a", "1")>>
PolicyRequests ==
    { Request(FullUrl("example.com", TRUE, ":443", "/Foo", TRUE, ScenarioQuery, FALSE),
              ".price", ""),
      Request(FullUrl("example.com", FALSE, ":443", "/Foo", TRUE, ScenarioQuery, FALSE),
              ".price", ""),
      Request(FullUrl("example.com", FALSE, ":443", "/foo", TRUE, ScenarioQuery, FALSE),
              ".price", ""),
      Request(FullUrl("example.com", FALSE, ":443", "/foo", TRUE, ScenarioQuery, FALSE),
              "h1", ""),
      Request(PlainUrl("example.com", "/foo"), "h1", ""),
      Request(PlainUrl("example.com", "/foo"), "universal", ""),
      Request(PlainUrl("example.com", "/foo"), "div.content", ""),
      Request(PlainUrl("example.com", "/foo"), "nav", "") }

CacheKeys ==
    {_make_url_key(r.url, r.selector, r.context) : r \in Requests \cup PolicyRequests}

\* Payloads are dicts: sets of (field, value) pairs.  None is no dict.
Dict(items) == [none |-> FALSE, items |-> items]
None == [none |-> TRUE, items |-> {}]
Payloads ==
    { Dict({}),
      Dict({<<"status", "success">>, <<"data", "hello">>}),
      Dict({<<"status", "success">>, <<"data", "ten kilobytes of text">>}) }
Truthy(value) == ~value.none /\ value.items # {}
Field(dict, name, default) ==
    IF \E p \in dict.items : p[1] = name
    THEN (CHOOSE p \in dict.items : p[1] = name)[2]
    ELSE default

\* A value that is itself a dict, as the 'data' of an extraction response.
DictValue == "{text, title, metadata}"

\* len(pickle.dumps(data)), and the test data_size > 10_000
pickle_size(data) ==
    CASE Field(data, "data", "") = "ten kilobytes of text" -> 10000 + 1
      [] Field(data, "data", "") = "text that pickles to 10000 bytes" -> 10000
      [] OTHER -> 100
IsLarge(data) == pickle_size(data) > 10000

\* A str or bytes value: sys.getsizeof counts its whole length.
Blob(size) == [none |-> FALSE, items |-> {<<"text", "long">>}, size |-> size]

\* BoundedLRUCache._get_size: sys.getsizeof of the value, which for a dict does
\* not count what the dict holds; in units of the scaled byte budget.
_get_size(value) ==
    IF "size" \in DOMAIN value THEN value.size
    ELSE IF value.none \/ value.items = {} THEN 1 ELSE 2

\* The process-local LRU: entries oldest first, and the tracked byte total.
Lru(cache, size) == [cache |-> cache, current_size_bytes |-> size]
LruKeys(cache) == {cache[i].key : i \in 1 .. Len(cache)}
LruIndex(cache, key) == CHOOSE i \in 1 .. Len(cache) : cache[i].key = key

\* BoundedLRUCache.get: the value, and the map with the key moved to the end.
lru_value(lru, key) ==
    IF key \in LruKeys(lru.cache)
    THEN lru.cache[LruIndex(lru.cache, key)].value
    ELSE None

lru_get(lru, key) ==
    IF key \in LruKeys(lru.cache)
    THEN Lru(SelectSeq(lru.cache, LAMBDA e : e.key # key)
                 \o <<lru.cache[LruIndex(lru.cache, key)]>>,
             lru.current_size_bytes)
    ELSE lru

\* BoundedLRUCache.set: the eviction loop, then the store.  An existing key
\* keeps its place in the order; the size of the value it held is not taken
\* off the total.
RECURSIVE lru_evict(_, _)
lru_evict(lru, size) ==
    IF /\ \/ Len(lru.cache) >= cache_max_items
          \/ lru.current_size_bytes + size > cache_max_memory
       /\ lru.cache # << >>
    THEN lru_evict(Lru(Tail(lru.cache),
                       lru.current_size_bytes - _get_size(lru.cache[1].value)),
                   size)
    ELSE lru

lru_set(lru, key, value) ==
    LET size == _get_size(value)
        room == lru_evict(lru, size)
        entry == [key |-> key, value |-> value, timestamp |-> now]
    IN Lru(IF key \in LruKeys(room.cache)
           THEN [room.cache EXCEPT ![LruIndex(room.cache, key)] = entry]
           ELSE Append(room.cache, entry),
           room.current_size_bytes + size)

\* What Redis answers to GET: a key set with SETEX is gone once its time is up.
redis_get(key) ==
    IF now < redis_expires[key] THEN redis_data[key] ELSE None

\* The bare "except: pass" around every Redis call of CacheManager: whether
\* what the call raised goes on to the caller.
except_reraise(raised) == raised
except_pass(raised) == FALSE

\* Whether CacheManager.get or CacheManager.set raises: of what they call,
\* only the Redis client can fail.
CacheManager_raises(redis_ok) == except_pass(redis_client /\ ~redis_ok)

\* Whether DuckDBClient.get_cached_page or store_cached_page raises: the
\* request is made inside "try ... except Exception", which returns None or
\* False.
DuckDBClient_raises(duckdb_ok) == FALSE

\* CacheManager.get: Redis first when it is configured; a failing Redis call
\* is swallowed and the memory cache answers.
CacheManager_get(key, redis_ok) ==
    IF redis_client /\ redis_ok /\ ~redis_get(key).none
    THEN [value |-> redis_get(key),
          memory |-> Lru(memory_cache, current_size_bytes)]
    ELSE [value |-> lru_value(Lru(memory_cache, current_size_bytes), key),
          memory |-> lru_get(Lru(memory_cache, current_size_bytes), key)]

\* CacheManager.set: Redis when it is configured (a failing call is
\* swallowed), and always the memory cache.
CacheManager_set(lru, redis, key, value, ttl, redis_ok) ==
    [redis |-> IF redis_client /\ redis_ok
               THEN [redis EXCEPT ![key] = value] ELSE redis,
     expires |-> IF redis_client /\ redis_ok
                 THEN [redis_expires EXCEPT ![key] = now + ttl]
                 ELSE redis_expires,
     memory |-> lru_set(lru, key, value)]

\* DuckDBClient.store_cached_page: what is kept of the data is its 'data'
\* field, else its 'text' field, else its string form.
page_content(data) ==
    IF Field(data, "data", "") # "" THEN Field(data, "data", "")
    ELSE IF Field(data, "text", "") # "" THEN Field(data, "text", "")
    ELSE "str(data)"

\* DuckDBClient.store_cached_page returns True: the request got through, and
\* the content could be hashed, which takes a string (content.encode()).
store_cached_page(data, duckdb_ok) ==
    duckdb_ok /\ page_content(data) # DictValue

\* DuckDBClient.get_cached_page: the stored content wrapped as a result.
l2_result(content) ==
    Dict({<<"status", "success">>, <<"data", content>>,
          <<"metadata", "url, title, word_count, content_hash">>,
          <<"cached", "True">>, <<"cache_layer", "L2_duckdb">>})

NoPage == "no page"

\* The log of the tiering runs: for each key the last payload put, whether L2
\* took it and when it expires.
\* No call to Redis or to the DuckDB service has failed.
NoFault == [redis |-> FALSE, duckdb |-> FALSE]

NoPut == [data |-> None, stored |-> FALSE, expires |-> 0]
NoTierLog == [k \in CacheKeys |-> NoPut]

IdleCache ==
    /\ memory_cache = << >>
    /\ current_size_bytes = 0
    /\ redis_client = FALSE
    /\ redis_data = [k \in CacheKeys |-> None]
    /\ redis_expires = [k \in CacheKeys |-> 0]
    /\ duckdb = FALSE
    /\ duckdb_pages = [k \in CacheKeys |-> NoPage]
    /\ ttl_expires = [k \in CacheKeys |-> 0]
    /\ now = 0
    /\ cacheOp = [op |-> "none"]
    /\ cacheRequests = 0
    /\ tierLog = NoTierLog
    /\ recency = << >>
    /\ fault = NoFault

\* The service starts with or without Redis and with or without DuckDB.
InitCache ==
    /\ memory_cache = << >>
    /\ current_size_bytes = 0
    /\ redis_client \in BOOLEAN
    /\ redis_data = [k \in CacheKeys |-> None]
    /\ redis_expires = [k \in CacheKeys |-> 0]
    /\ duckdb \in BOOLEAN
    /\ duckdb_pages = [k \in CacheKeys |-> NoPage]
    /\ ttl_expires = [k \in CacheKeys |-> 0]
    /\ now = 0
    /\ cacheOp = [op |-> "none"]
    /\ cacheRequests = 0
    /\ tierLog = NoTierLog
    /\ recency = << >>
    /\ fault = NoFault

\* The TTL get_cached_page reports for the page it returns, which the L1
\* copy of a promoted page is stored with.
l2_promotion_ttl == 60 * 60

\* ExtractorCacheService.get_cached_extraction.  redis_ok and duckdb_ok say
\* whether the calls to the two services get through this time.
get_cached_extraction(r, redis_ok, duckdb_ok) ==
    LET key == _make_url_key(r.url, r.selector, r.context)
        l1 == CacheManager_get(key, redis_ok)
        l2_hit == /\ duckdb /\ duckdb_ok
                  /\ duckdb_pages[key] # NoPage
                  /\ ttl_expires[key] > now
        data == l2_result(duckdb_pages[key])
        promoted == CacheManager_set(l1.memory, redis_data, key, data,
                                     l2_promotion_ttl, redis_ok)
        Answer(result, l1_reads, l2_reads) ==
            [op |-> "get", request |-> r, result |-> result,
             l1_reads |-> l1_reads, l2_reads |-> l2_reads,
             raised |-> \/ l1_reads > 0 /\ CacheManager_raises(redis_ok)
                        \/ l2_reads > 0 /\ DuckDBClient_raises(duckdb_ok)]
    IN
    IF should_bypass_cache(r.url, r.selector, r.context)
    THEN /\ cacheOp' = Answer(None, 0, 0)
         /\ UNCHANGED <<memory_cache, current_size_bytes, redis_data,
                        redis_expires, duckdb_pages, ttl_expires>>
    ELSE IF Truthy(l1.value)
    THEN /\ cacheOp' = Answer(l1.value, 1, 0)
         /\ memory_cache' = l1.memory.cache
         /\ current_size_bytes' = l1.memory.current_size_bytes
         /\ UNCHANGED <<redis_data, redis_expires, duckdb_pages, ttl_expires>>
    ELSE IF l2_hit
    THEN /\ cacheOp' = Answer(data, 1, 1)
         /\ memory_cache' = promoted.memory.cache
         /\ current_size_bytes' = promoted.memory.current_size_bytes
         /\ redis_data' = promoted.redis
         /\ redis_expires' = promoted.expires
         /\ UNCHANGED <<duckdb_pages, ttl_expires>>
    ELSE /\ cacheOp' = Answer(None, 1, IF duckdb THEN 1 ELSE 0)
         /\ memory_cache' = l1.memory.cache
         /\ current_size_bytes' = l1.memory.current_size_bytes
         /\ UNCHANGED <<redis_data, redis_expires, duckdb_pages, ttl_expires>>

\* cache_extraction: whether the entry is worth a row in L2.
should_persist(selector, smart_ttl, data) ==
    \/ selector = "universal"
    \/ smart_ttl >= 3600
    \/ IsLarge(data)

\* ExtractorCacheService.cache_extraction
cache_extraction(r, data, redis_ok, duckdb_ok) ==
    LET smart_ttl == get_cache_ttl(r.url, r.selector, r.context)
        key == _make_url_key(r.url, r.selector, r.context)
        written == CacheManager_set(Lru(memory_cache, current_size_bytes),
                                    redis_data, key, data, smart_ttl, redis_ok)
        stored == /\ duckdb
                  /\ should_persist(r.selector, smart_ttl, data)
                  /\ store_cached_page(data, duckdb_ok)
    IN
    /\ cacheOp' = [op |-> "put", request |-> r, data |-> data, ttl |-> smart_ttl,
                   raised |-> /\ smart_ttl > 0
                              /\ \/ CacheManager_raises(redis_ok)
                                 \/ /\ duckdb
                                    /\ should_persist(r.selector, smart_ttl,
                                                      data)
                                    /\ DuckDBClient_raises(duckdb_ok)]
    /\ IF smart_ttl = 0
       THEN UNCHANGED <<memory_cache, current_size_bytes, redis_data,
                        redis_expires, duckdb_pages, ttl_expires>>
       ELSE /\ memory_cache' = written.memory.cache
            /\ current_size_bytes' = written.memory.current_size_bytes
            /\ redis_data' = written.redis
            /\ redis_expires' = written.expires
            /\ duckdb_pages' =
                   IF stored
                   THEN [duckdb_pages EXCEPT ![key] = page_content(data)]
                   ELSE duckdb_pages
            /\ ttl_expires' =
                   IF stored
                   THEN [ttl_expires EXCEPT ![key] = now + smart_ttl]
                   ELSE ttl_expires

\* Whether a call to a service gets through is open for each request that
\* can call it: the service has to be configured, and the request cacheable.
Reachable(configured, r) ==
    IF configured /\ get_cache_ttl(r.url, r.selector, r.context) > 0
    THEN BOOLEAN ELSE {TRUE}

\* A request reads the cache, or stores what it extracted.
CacheGet ==
    /\ cacheRequests < MaxCacheRequests
    /\ cacheRequests' = cacheRequests + 1
    /\ \E r \in Requests :
         \E redis_ok \in Reachable(redis_client, r),
            duckdb_ok \in Reachable(duckdb, r) :
           get_cached_extraction(r, redis_ok, duckdb_ok)
    /\ UNCHANGED <<redis_client, duckdb, now, tierLog, recency, fault>>

CachePut ==
    /\ cacheRequests < MaxCacheRequests
    /\ cacheRequests' = cacheRequests + 1
    /\ \E r \in Requests, data \in Payloads :
         \E redis_ok \in Reachable(redis_client, r),
            duckdb_ok \in Reachable(duckdb, r) :
           cache_extraction(r, data, redis_ok, duckdb_ok)
    /\ UNCHANGED <<redis_client, duckdb, now, tierLog, recency, fault>>

\* The requests that match a bypass rule: the context names a search, the
\* host is a search engine, or the path is a realtime path.
BypassRequests ==
    {r \in Requests : \/ r.context = "Search results"
                      \/ r.url.host = "google.com"
                      \/ r.url.path = "/api/x"}

\* C9: a get for a request that matches a bypass rule returns absent and has
\* read neither L1 nor L2, and a put for such a request leaves the contents of
\* L1 (memory and Redis) and of L2 as they were.
C9_BypassPurity ==
    [][\A r \in BypassRequests :
           (cacheRequests' # cacheRequests /\ cacheOp'.request = r) =>
               /\ UNCHANGED <<memory_cache, current_size_bytes, redis_data,
                              redis_expires, duckdb_pages, ttl_expires>>
               /\ cacheOp'.op = "get" =>
                      /\ cacheOp'.result = None
                      /\ cacheOp'.l1_reads = 0
                      /\ cacheOp'.l2_reads = 0]_vars

\* A get was served for a request on a search host while the memory cache
\* held entries.
C9_Witness ==
    /\ cacheOp.op = "get"
    /\ cacheOp.request = Request(PlainUrl("google.com", "/foo"), "h1", "")
    /\ cacheOp.result = None
    /\ memory_cache # << >>

\* C10: a get that immediately follows a put of the same (url, selector,
\* context), the put matching no bypass and no zero-TTL rule, returns the
\* payload that was put, whatever the payload.
C10_GetAfterPut ==
    [][(/\ cacheOp.op = "put"
        /\ cacheOp.ttl > 0
        /\ cacheOp'.op = "get"
        /\ cacheOp'.request = cacheOp.request) =>
           cacheOp'.result = cacheOp.data]_vars

(***************************************************************************)
(* Tiering over time: the same cache service, with the clock advancing,    *)
(* the periodic sweep of the memory cache, and a log of what was put.      *)
(***************************************************************************)

MaxTierRequests == 5
MaxCacheTicks == 2
TickSeconds == 30 * 60

\* BoundedLRUCache.clear_expired: entries older than an hour are dropped and
\* their size is taken off the total.
lru_expired(entry) == now - entry.timestamp > 3600

RECURSIVE SizeOf(_)
SizeOf(cache) ==
    IF cache = << >> THEN 0
    ELSE _get_size(Head(cache).value) + SizeOf(Tail(cache))

clear_expired(lru) ==
    Lru(SelectSeq(lru.cache, LAMBDA e : ~lru_expired(e)),
        lru.current_size_bytes - SizeOf(SelectSeq(lru.cache, lru_expired)))

\* CacheManager._periodic_cleanup: one round of the sweep.
_periodic_cleanup ==
    LET swept == clear_expired(Lru(memory_cache, current_size_bytes))
    IN /\ memory_cache' = swept.cache
       /\ current_size_bytes' = swept.current_size_bytes
       /\ UNCHANGED <<redis_client, redis_data, redis_expires, duckdb,
                      duckdb_pages, ttl_expires, now, cacheRequests, tierLog,
                      fault>>
       /\ cacheOp' = [op |-> "sweep", at |-> now]
       /\ recency' = SelectSeq(recency, LAMBDA k : k \in LruKeys(swept.cache))

\* Time passes.
CacheTick ==
    /\ now < MaxCacheTicks * TickSeconds
    /\ now' = now + TickSeconds
    /\ UNCHANGED <<memory_cache, current_size_bytes, redis_client, redis_data,
                   redis_expires, duckdb, duckdb_pages, ttl_expires, cacheOp,
                   cacheRequests, tierLog, recency, fault>>

\* The requests and payloads of the tiering runs: a selector cached for half
\* an hour and one cached for an hour, a response with its text under 'data'
\* and one with its text under 'text'.
TierRequests ==
    { Request(PlainUrl("example.com", "/foo"), "h1", ""),
      Request(PlainUrl("example.com", "/foo"), "div.content", "") }
TierPayloads ==
    { Dict({<<"status", "success">>, <<"data", "hello">>}),
      Dict({<<"text", "hello">>}) }

\* The writes of the tiering runs find L2 answering (a layer that fails is
\* the subject of the fault runs).
TierPut ==
    /\ cacheRequests < MaxTierRequests
    /\ cacheRequests' = cacheRequests + 1
    /\ \E r \in TierRequests, data \in TierPayloads :
         \E redis_ok \in Reachable(redis_client, r), duckdb_ok \in {TRUE} :
           LET key == _make_url_key(r.url, r.selector, r.context)
               ttl == get_cache_ttl(r.url, r.selector, r.context)
           IN /\ cache_extraction(r, data, redis_ok, duckdb_ok)
              /\ tierLog' = [tierLog EXCEPT ![key] =
                     [data |-> data,
                      stored |-> /\ duckdb_pages'[key] # NoPage
                                 /\ ttl_expires'[key] = now + ttl
                                 /\ duckdb /\ duckdb_ok,
                      expires |-> now + ttl]]
    /\ UNCHANGED <<redis_client, duckdb, now, recency, fault>>

\* The reads of the tiering runs find L2 answering.
TierGet ==
    /\ cacheRequests < MaxTierRequests
    /\ cacheRequests' = cacheRequests + 1
    /\ \E r \in TierRequests :
         \E redis_ok \in Reachable(redis_client, r) :
           get_cached_extraction(r, redis_ok, TRUE)
    /\ UNCHANGED <<redis_client, duckdb, now, tierLog, recency, fault>>

\* L1 holds nothing for the key: neither the memory cache nor Redis.
L1Holds(key) ==
    \/ key \in LruKeys(memory_cache)
    \/ redis_client /\ ~redis_get(key).none

\* The origin tags a served payload may carry on top of what was put.
OriginTags == {"cached", "cache_layer", "metadata"}
Equivalent(result, data) ==
    /\ ~result.none
    /\ {p \in result.items : p[1] \notin OriginTags} = data.items

KeyOf(r) == _make_url_key(r.url, r.selector, r.context)

\* C11: when the last put of a key was persisted to L2 and L1 holds the key
\* no longer, a get that comes before the TTL of the put has elapsed is
\* served by L2 and returns a payload equivalent to the payload that was put.
C11_L2ServesAfterEviction ==
    [][\A r \in TierRequests :
           (/\ tierLog[KeyOf(r)].stored
            /\ ~L1Holds(KeyOf(r))
            /\ now < tierLog[KeyOf(r)].expires
            /\ cacheRequests' # cacheRequests
            /\ cacheOp'.op = "get" /\ cacheOp'.request = r) =>
               /\ cacheOp'.l2_reads = 1
               /\ Equivalent(cacheOp'.result, tierLog[KeyOf(r)].data)]_vars

\* The origin a served payload is tagged with.
OriginOf(result) == Field(result, "cache_layer", "untagged")
L2Origin == "L2_duckdb"

\* C12: a get that misses L1 and hits L2 returns the payload tagged with
\* origin L2 and leaves it in L1; the get for the same key that follows is
\* served from L1, without a read of L2, and its payload is tagged with
\* origin L1.
C12_PromotionAndOrigin ==
    [][(/\ cacheOp.op = "get"
        /\ cacheOp.l2_reads = 1
        /\ ~cacheOp.result.none
        /\ cacheRequests' # cacheRequests
        /\ cacheOp'.op = "get"
        /\ cacheOp'.request = cacheOp.request) =>
           /\ OriginOf(cacheOp.result) = L2Origin
           /\ KeyOf(cacheOp.request) \in LruKeys(memory_cache)
           /\ cacheOp'.l1_reads = 1
           /\ cacheOp'.l2_reads = 0
           /\ OriginOf(cacheOp'.result) \notin {"untagged", L2Origin}]_vars

\* How long a copy in the memory cache stays: until the sweep finds it older
\* than an hour.
MemoryValidUntil(cache, key) == cache[LruIndex(cache, key)].timestamp + 3600

\* C13: when a get is served by L2 and the page is written back to L1, the
\* copy in Redis expires when the page does (it was given the remaining TTL),
\* and the copy in the memory cache does not outlast the page.
C13_PromotionKeepsExpiry ==
    [][\A r \in TierRequests :
           (/\ cacheRequests' # cacheRequests
            /\ cacheOp'.op = "get" /\ cacheOp'.request = r
            /\ cacheOp'.l2_reads = 1
            /\ ~cacheOp'.result.none) =>
               /\ redis_expires'[KeyOf(r)] # redis_expires[KeyOf(r)] =>
                      redis_expires'[KeyOf(r)] = ttl_expires[KeyOf(r)]
               /\ MemoryValidUntil(memory_cache', KeyOf(r))
                      <= ttl_expires[KeyOf(r)]]_vars

(***************************************************************************)
(* Selector-performance memory: track_selector_performance of the cache    *)
(* service, DuckDBClient.store_selector_performance and the                *)
(* POST /cache/element handler of the DuckDB service over its              *)
(* cached_elements table.  The handler has no suspension point between its *)
(* SELECT and its UPDATE or INSERT, and the service runs one event loop,   *)
(* so one request is one step.                                             *)
(***************************************************************************)

MaxAttempts == 3

Domains == {"example.com", "shop.example.com"}
\* The element types get_optimized_selector knows.
ElementTypes == {"general", "content"}
Selectors == {"h1", "div.content"}

\* A time in milliseconds as the exact fraction the service's float stands
\* for, in lowest terms.
RECURSIVE Gcd(_, _)
Gcd(a, b) == IF b = 0 THEN a ELSE Gcd(b, a % b)
Rat(num, den) ==
    IF num = 0 THEN [num |-> 0, den |-> 1]
    ELSE [num |-> num \div Gcd(num, den), den |-> den \div Gcd(num, den)]
RatLess(a, b) == a.num * b.den < b.num * a.den

\* CachedElement: the body of POST /cache/element.  find_time_ms is optional;
\* None and 0 are treated alike by the handler and are both 0 here.
TimedElement(domain, element_type, selector, success, find_time_ms) ==
    [domain |-> domain, element_type |-> element_type,
     selector |-> selector, success |-> success,
     find_time_ms |-> find_time_ms]

\* The body the cache service sends: find_time_ms=None.
CachedElement(domain, element_type, selector, success) ==
    TimedElement(domain, element_type, selector, success, 0)

Triple(domain, element_type, selector) ==
    [domain |-> domain, element_type |-> element_type, selector |-> selector]
Triples ==
    {Triple(d, t, s) : d \in Domains, t \in ElementTypes, s \in Selectors}
TripleOf(row) == Triple(row.domain, row.element_type, row.selector)

\* _make_selector_key: one hot counter per (domain, outcome, selector).
_make_selector_key(domain, selector, success) ==
    <<"selector", domain, IF success THEN "works" ELSE "fails", selector>>
SelectorKeys ==
    {_make_selector_key(d, s, b) : d \in Domains, s \in Selectors, b \in BOOLEAN}

NoSelectorOp == [op |-> "none"]

IdleSelectors ==
    /\ cached_elements = {}
    /\ seq_cached_elements = 1
    /\ selector_hot = [k \in SelectorKeys |-> 0]
    /\ selectorOp = NoSelectorOp
    /\ selectorCalls = 0

InitSelectors == IdleSelectors

\* The rows the handler's SELECT matches, and the one fetchone returns.
Matching(table, element) ==
    {row \in table : /\ row.domain = element.domain
                     /\ row.element_type = element.element_type
                     /\ row.selector = element.selector}

MatchingAnyType(table, element) ==
    {row \in table : /\ row.domain = element.domain
                     /\ row.selector = element.selector}

fetchone(rows) == CHOOSE row \in rows : \A other \in rows : row.id <= other.id

\* The table after the UPDATE or the INSERT of the handler.
Recorded(table, seq, rows, element) ==
    IF rows # {}
    THEN LET existing == fetchone(rows)
             updated ==
                 [existing EXCEPT
                    !.success_count = IF element.success THEN @ + 1 ELSE @,
                    !.fail_count = IF element.success THEN @ ELSE @ + 1]
             timed ==
                 [updated EXCEPT !.avg_find_time_ms =
                    IF element.find_time_ms # 0 /\ element.success
                    THEN Rat(@.num * existing.success_count
                                 + element.find_time_ms * @.den,
                             @.den * updated.success_count)
                    ELSE @]
         IN  [table |-> (table \ {existing}) \cup {timed}, seq |-> seq]
    ELSE [table |-> table \cup
                      {[id |-> seq,
                        domain |-> element.domain,
                        element_type |-> element.element_type,
                        selector |-> element.selector,
                        success_count |-> IF element.success THEN 1 ELSE 0,
                        fail_count |-> IF element.success THEN 0 ELSE 1,
                        avg_find_time_ms |-> Rat(element.find_time_ms, 1)]},
          seq |-> seq + 1]

cache_element_AnyType(table, seq, element) ==
    Recorded(table, seq, MatchingAnyType(table, element), element)

cache_element(table, seq, element) ==
    Recorded(table, seq, Matching(table, element), element)

\* DuckDBClient.store_selector_performance: the POST, True on a 200; a
\* failed call is logged and leaves the table as it was.
store_selector_performance(domain, selector, element_type, success, duckdb_ok) ==
    IF duckdb_ok
    THEN LET after == cache_element(cached_elements, seq_cached_elements,
                          CachedElement(domain, element_type, selector, success))
         IN  /\ cached_elements' = after.table
             /\ seq_cached_elements' = after.seq
    ELSE UNCHANGED <<cached_elements, seq_cached_elements>>

\* track_selector_performance: the hot counter in L1 (read, add one, write
\* back; hit is whether L1 still holds the counter), then the record in
\* DuckDB when it is configured, always under the element type "general".
track_selector_performance(domain, selector, success, hit, duckdb_ok) ==
    LET key == _make_selector_key(domain, selector, success)
        count == IF hit THEN selector_hot[key] ELSE 0
    IN  /\ selector_hot' = [selector_hot EXCEPT ![key] = count + 1]
        /\ IF duckdb
           THEN store_selector_performance(domain, selector, "general",
                                           success, duckdb_ok)
           ELSE UNCHANGED <<cached_elements, seq_cached_elements>>
        /\ selectorOp' = [op |-> "track", domain |-> domain,
                          element_type |-> "general", selector |-> selector,
                          success |-> success,
                          recorded |-> duckdb /\ duckdb_ok]

\* A selector attempt of an extraction, recorded through the cache service.
TrackSelector ==
    /\ selectorCalls < MaxAttempts
    /\ selectorCalls' = selectorCalls + 1
    /\ \E domain \in Domains, selector \in Selectors, success \in BOOLEAN,
          hit \in BOOLEAN, duckdb_ok \in BOOLEAN :
         track_selector_performance(domain, selector, success, hit, duckdb_ok)
    /\ UNCHANGED cacheVars

\* A record posted to the DuckDB service directly, under any element type.
PostElement ==
    /\ selectorCalls < MaxAttempts
    /\ selectorCalls' = selectorCalls + 1
    /\ duckdb
    /\ \E domain \in Domains, element_type \in ElementTypes,
          selector \in Selectors, success \in BOOLEAN :
         /\ store_selector_performance(domain, selector, element_type,
                                       success, TRUE)
         /\ selectorOp' = [op |-> "post", domain |-> domain,
                           element_type |-> element_type,
                           selector |-> selector, success |-> success,
                           recorded |-> TRUE]
    /\ UNCHANGED <<selector_hot, cacheVars>>

RECURSIVE SumOf(_, _)
SumOf(rows, field) ==
    IF rows = {} THEN 0
    ELSE LET row == CHOOSE r \in rows : TRUE
         IN  row[field] + SumOf(rows \ {row}, field)

\* The counter of a triple in L2: 0 while the triple has no row.
Counter(table, triple, field) ==
    SumOf({row \in table : TripleOf(row) = triple}, field)

Attempted(op) == Triple(op.domain, op.element_type, op.selector)

\* C14: every selector attempt recorded in L2 through the cache service (or
\* posted to the store) adds exactly 1 to the counter matching its outcome
\* (success_count when it succeeded, fail_count otherwise) of exactly its
\* (domain, element type, selector) triple; the other counter of that triple
\* and both counters of every other triple stay as they were.
C14_SelectorRoundTrip ==
    [][(selectorCalls' # selectorCalls /\ selectorOp'.recorded) =>
         \A triple \in Triples :
           LET hit == triple = Attempted(selectorOp')
           IN  /\ Counter(cached_elements', triple, "success_count")
                    = Counter(cached_elements, triple, "success_count")
                      + (IF hit /\ selectorOp'.success THEN 1 ELSE 0)
               /\ Counter(cached_elements', triple, "fail_count")
                    = Counter(cached_elements, triple, "fail_count")
                      + (IF hit /\ ~selectorOp'.success THEN 1 ELSE 0)]_vars

\* An attempt recorded through the cache service raised a counter that
\* already stood at 1 or more, while another triple of the same domain and
\* selector has a row of its own.
C14_Witness ==
    /\ selectorOp.op = "track"
    /\ selectorOp.recorded
    /\ selectorOp.success
    /\ Counter(cached_elements, Attempted(selectorOp), "success_count") >= 2
    /\ \E row \in cached_elements :
         /\ row.element_type # "general"
         /\ row.domain = selectorOp.domain
         /\ row.selector = selectorOp.selector

(***************************************************************************)
(* Cache keys: CacheKeyGenerator.generate_cache_key applied to pairs of    *)
(* URLs of one page.                                                       *)
(***************************************************************************)

KeyHosts == {"example.com", "github.com"}
KeyQueries ==
    { << >>,
      <<Param("utm_source", "x")>>,
      <<Param("UTM_SOURCE", "x")>>,
      <<Param("b", "2"), Param("a", "1")>>,
      <<Param("utm_source", "x"), Param("b", "2"), Param("a", "1")>>,
      <<Param("a", "1"), Param("b", "2"), Param("utm_source", "x")>>,
      <<Param("a", "2"), Param("a", "1")>>,
      <<Param("utm_id", "1")>> }
KeyUrls ==
    {FullUrl(host, upper, port, "/foo", slash, query, frag) :
        host \in KeyHosts, upper \in BOOLEAN, port \in {"", ":443"},
        slash \in BOOLEAN, query \in KeyQueries, frag \in BOOLEAN}
KeySelectors == {"", "h1"}

KeyPairs == {pair \in KeyUrls \X KeyUrls : pair[1].host = pair[2].host}

\* Two requests for one host are about to compute their keys.
InitKeys ==
    /\ memory_cache = << >>
    /\ current_size_bytes = 0
    /\ redis_client = FALSE
    /\ redis_data = [k \in CacheKeys |-> None]
    /\ redis_expires = [k \in CacheKeys |-> 0]
    /\ duckdb = FALSE
    /\ duckdb_pages = [k \in CacheKeys |-> NoPage]
    /\ ttl_expires = [k \in CacheKeys |-> 0]
    /\ now = 0
    /\ cacheOp \in {[op |-> "urls", u1 |-> pair[1], u2 |-> pair[2],
                     selector |-> selector, context |-> ""] :
                        pair \in KeyPairs, selector \in KeySelectors}
    /\ cacheRequests = 0
    /\ tierLog = NoTierLog
    /\ recency = << >>
    /\ fault = NoFault

GenerateKeys ==
    /\ cacheOp.op = "urls"
    /\ cacheRequests' = cacheRequests + 1
    /\ cacheOp' = [op |-> "keys", u1 |-> cacheOp.u1, u2 |-> cacheOp.u2,
                   selector |-> cacheOp.selector, context |-> cacheOp.context,
                   key1 |-> _make_url_key(cacheOp.u1, cacheOp.selector,
                                          cacheOp.context),
                   key2 |-> _make_url_key(cacheOp.u2, cacheOp.selector,
                                          cacheOp.context)]
    /\ UNCHANGED <<memory_cache, current_size_bytes, redis_client, redis_data,
                   redis_expires, duckdb, duckdb_pages, ttl_expires, now,
                   tierLog, recency, fault>>

\* Two URLs differ only in tracking parameters, fragment, trailing slash or
\* host case: host name, port, path and the other parameters are the same.
NonTracking(query) ==
    SelectSeq(query, LAMBDA p : Lower(p[1]) \notin EXCLUDED_PARAMS)
DifferOnlyInNoise(u1, u2) ==
    /\ u1.host = u2.host
    /\ u1.port = u2.port
    /\ u1.path = u2.path
    /\ NonTracking(u1.query) = NonTracking(u2.query)

MaxLruRequests == 5
MaxLruTicks == 3

\* Three keys, stored for half an hour, an hour and a day.
LruRequests ==
    { Request(PlainUrl("example.com", "/foo"), "h1", ""),
      Request(PlainUrl("example.com", "/foo"), "div.content", ""),
      Request(PlainUrl("example.com", "/foo"), "nav", "") }
\* An empty dict, a response, and a text longer than the whole byte budget.
LruValues ==
    { Dict({}),
      Dict({<<"status", "success">>, <<"data", "hello">>}),
      Blob(cache_max_memory + 1) }

StoredTtl(key) ==
    LET r == CHOOSE r \in LruRequests : KeyOf(r) = key
    IN  get_cache_ttl(r.url, r.selector, r.context)

Without(order, keys) == SelectSeq(order, LAMBDA k : k \notin keys)

\* memory_cache.set(key, value, ttl)
LruSet ==
    /\ cacheRequests < MaxLruRequests
    /\ cacheRequests' = cacheRequests + 1
    /\ \E r \in LruRequests, value \in LruValues :
         LET key == KeyOf(r)
             lru == Lru(memory_cache, current_size_bytes)
             room == lru_evict(lru, _get_size(value))
             after == lru_set(lru, key, value)
             evicted == LruKeys(memory_cache) \ LruKeys(room.cache)
         IN  /\ memory_cache' = after.cache
             /\ current_size_bytes' = after.current_size_bytes
             /\ cacheOp' = [op |-> "set", key |-> key, evicted |-> evicted,
                            remaining |-> LruKeys(room.cache),
                            before |-> recency]
             /\ recency' = Append(Without(recency, evicted \cup {key}), key)
    /\ UNCHANGED <<redis_client, redis_data, redis_expires, duckdb,
                   duckdb_pages, ttl_expires, now, tierLog, fault>>

\* memory_cache.get(key)
LruGet ==
    /\ cacheRequests < MaxLruRequests
    /\ cacheRequests' = cacheRequests + 1
    /\ \E r \in LruRequests :
         LET key == KeyOf(r)
             lru == Lru(memory_cache, current_size_bytes)
             after == lru_get(lru, key)
         IN  /\ memory_cache' = after.cache
             /\ current_size_bytes' = after.current_size_bytes
             /\ cacheOp' = [op |-> "get", key |-> key,
                            value |-> lru_value(lru, key)]
             /\ recency' = IF key \in LruKeys(memory_cache)
                           THEN Append(Without(recency, {key}), key)
                           ELSE recency
    /\ UNCHANGED <<redis_client, redis_data, redis_expires, duckdb,
                   duckdb_pages, ttl_expires, now, tierLog, fault>>

LruTick ==
    /\ now < MaxLruTicks * TickSeconds
    /\ now' = now + TickSeconds
    /\ UNCHANGED <<memory_cache, current_size_bytes, redis_client, redis_data,
                   redis_expires, duckdb, duckdb_pages, ttl_expires, cacheOp,
                   cacheRequests, tierLog, recency, fault>>

\* C16: after every set on the memory cache both caps hold: it has at most
\* cache_max_items entries and the estimated sizes of its entries add up to
\* at most the byte budget.
C16_BothCapsAfterSet ==
    cacheOp.op = "set" =>
        /\ Len(memory_cache) <= cache_max_items
        /\ SizeOf(memory_cache) <= cache_max_memory

\* C34: after every operation on the memory cache (a set of a new key, a set
\* over an existing key, an eviction, a sweep) the tracked byte total is the
\* sum of the size estimates of the entries in the map.
C34_ByteTotalMatchesEntries ==
    current_size_bytes = SizeOf(memory_cache)

Position(order, key) == CHOOSE i \in 1 .. Len(order) : order[i] = key

\* C17: a set evicts only least recently used entries: every entry it
\* evicts was last used (set, or found by a get) before every entry it
\* leaves in place (the entry of the key being set aside, which the set
\* replaces).
C17_EvictsLeastRecentlyUsed ==
    cacheOp.op = "set" =>
        \A gone \in cacheOp.evicted \ {cacheOp.key} :
            \A kept \in cacheOp.remaining \ {cacheOp.key} :
                Position(cacheOp.before, gone) < Position(cacheOp.before, kept)

\* C18: a sweep removes exactly the entries older than the TTL they were
\* stored with and leaves the others where they are.
C18_SweepByStoredTtl ==
    [][(cacheOp'.op = "sweep" /\ cacheOp' # cacheOp) =>
         memory_cache' =
            SelectSeq(memory_cache,
                      LAMBDA e : ~(now - e.timestamp > StoredTtl(e.key)))]_vars

\* C37: a get on the memory cache never returns an entry whose TTL has
\* already elapsed: when the get finds the key, the age of its entry is
\* within the TTL the entry was stored with.
C37_GetNeverReturnsExpired ==
    [][(cacheOp'.op = "get" /\ cacheRequests' # cacheRequests
            /\ cacheOp'.key \in LruKeys(memory_cache)) =>
         LET e == memory_cache[LruIndex(memory_cache, cacheOp'.key)]
         IN  ~(now - e.timestamp > StoredTtl(e.key))]_vars

(***************************************************************************)
(* TTL and persistence policy: puts and gets of the cache service with L2  *)
(* configured and answering, Redis not configured.                         *)
(***************************************************************************)

MaxPolicyRequests == 3

\* A response with a short text, one whose pickle is exactly 10,000 bytes,
\* one above it, and the response of extract_content, whose 'data' is a dict.
PolicyPayloads ==
    { Dict({<<"status", "success">>, <<"data", "hello">>}),
      Dict({<<"status", "success">>, <<"data", "text that pickles to 10000 bytes">>}),
      Dict({<<"status", "success">>, <<"data", "ten kilobytes of text">>}),
      Dict({<<"status", "success">>, <<"data", DictValue>>}) }

PolicyPut ==
    /\ cacheRequests < MaxPolicyRequests
    /\ cacheRequests' = cacheRequests + 1
    /\ \E r \in PolicyRequests, data \in PolicyPayloads :
         /\ cache_extraction(r, data, TRUE, TRUE)
         /\ tierLog' = [tierLog EXCEPT ![KeyOf(r)] =
                          [data |-> data,
                           stored |-> duckdb_pages'[KeyOf(r)] # NoPage,
                           expires |-> now + get_cache_ttl(r.url, r.selector,
                                                           r.context)]]
    /\ UNCHANGED <<redis_client, duckdb, now, recency, fault>>

PolicyGet ==
    /\ cacheRequests < MaxPolicyRequests
    /\ cacheRequests' = cacheRequests + 1
    /\ \E r \in PolicyRequests : get_cached_extraction(r, TRUE, TRUE)
    /\ UNCHANGED <<redis_client, duckdb, now, tierLog, recency, fault>>

\* The requests whose TTL policy is 0 for their selector: a dynamic pattern.
ZeroTtlRequests == {r \in PolicyRequests : r.selector = ".price"}

\* Two URLs are one URL up to the case of its letters.
CaseVariant(u1, u2) ==
    /\ u1.host = u2.host
    /\ u1.port = u2.port
    /\ Lower(u1.path) = Lower(u2.path)
    /\ u1.slash = u2.slash
    /\ u1.query = u2.query
    /\ u1.frag = u2.frag

NoEntry(key) ==
    /\ key \notin LruKeys(memory_cache)
    /\ redis_data[key] = None
    /\ duckdb_pages[key] = NoPage

\* C19: a put whose TTL policy is 0 leaves L1 (memory and Redis) and L2 as
\* they were, and when there was no entry under its key, a get that follows
\* it for the same URL in any spelling of its letters, same selector and
\* context, returns absent.
C19_ZeroTtlPutIsNoOp ==
    [][\A r \in ZeroTtlRequests :
         /\ (/\ cacheRequests' # cacheRequests
             /\ cacheOp'.op = "put"
             /\ cacheOp'.request = r)
               => UNCHANGED <<memory_cache, current_size_bytes, redis_data,
                              redis_expires, duckdb_pages, ttl_expires>>
         /\ (/\ cacheOp.op = "put"
             /\ cacheOp.request = r
             /\ NoEntry(KeyOf(r))
             /\ cacheRequests' # cacheRequests
             /\ cacheOp'.op = "get"
             /\ CaseVariant(cacheOp'.request.url, r.url)
             /\ cacheOp'.request.selector = r.selector
             /\ cacheOp'.request.context = r.context)
               => cacheOp'.result = None]_vars

\* After a put of a payload for the scenario URL under .price, a get for the
\* URL spelled in lower case looked up L1 and L2 and found nothing, while the
\* cache held an entry of the same page under another selector.
C19_Witness ==
    /\ cacheOp.op = "get"
    /\ cacheOp.request =
         Request(FullUrl("example.com", FALSE, ":443", "/foo", TRUE,
                         ScenarioQuery, FALSE), ".price", "")
    /\ cacheOp.result = None
    /\ cacheOp.l1_reads = 1
    /\ cacheOp.l2_reads = 1
    /\ tierLog[KeyOf(Request(FullUrl("example.com", TRUE, ":443", "/Foo", TRUE,
                                     ScenarioQuery, FALSE), ".price", ""))].data
         # None
    /\ memory_cache # << >>

\* C20: a put with a policy TTL above 0 under a key L2 has no row for puts a
\* row there exactly when the selector is "universal", or the policy TTL is
\* 3,600 s or more, or the pickled payload is 10,000 bytes or more.
C20_PersistRule ==
    [][\A r \in PolicyRequests :
         (/\ cacheRequests' # cacheRequests
          /\ cacheOp'.op = "put"
          /\ cacheOp'.request = r
          /\ cacheOp'.ttl > 0
          /\ duckdb_pages[KeyOf(r)] = NoPage)
            => ((duckdb_pages'[KeyOf(r)] # NoPage)
                  <=> \/ r.selector = "universal"
                      \/ cacheOp'.ttl >= 3600
                      \/ pickle_size(cacheOp'.data) >= 10000)]_vars

(***************************************************************************)
(* Failing layers: the same cache service, with a record of which of the   *)
(* calls made by the last request failed.                                  *)
(***************************************************************************)

MaxFaultRequests == 3

FaultPut ==
    /\ cacheRequests < MaxFaultRequests
    /\ cacheRequests' = cacheRequests + 1
    /\ \E r \in TierRequests, data \in Payloads :
         \E redis_ok \in Reachable(redis_client, r),
            duckdb_ok \in Reachable(duckdb, r) :
           /\ cache_extraction(r, data, redis_ok, duckdb_ok)
           /\ fault' = [redis |-> ~redis_ok, duckdb |-> ~duckdb_ok]
    /\ UNCHANGED <<redis_client, duckdb, now, tierLog, recency>>

FaultGet ==
    /\ cacheRequests < MaxFaultRequests
    /\ cacheRequests' = cacheRequests + 1
    /\ \E r \in TierRequests :
         \E redis_ok \in Reachable(redis_client, r),
            duckdb_ok \in Reachable(duckdb, r) :
           /\ get_cached_extraction(r, redis_ok, duckdb_ok)
           /\ fault' = [redis |-> ~redis_ok, duckdb |-> ~duckdb_ok]
    /\ UNCHANGED <<redis_client, duckdb, now, tierLog, recency>>

\* The values the layers that answer hold under a key: the memory cache,
\* Redis unless the call to it fails, L2 unless the call to it fails.
HeldBy(key, failed) ==
    {lru_value(Lru(memory_cache, current_size_bytes), key)}
    \cup (IF redis_client /\ ~failed.redis THEN {redis_get(key)} ELSE {})
    \cup (IF /\ duckdb /\ ~failed.duckdb
             /\ duckdb_pages[key] # NoPage /\ ttl_expires[key] > now
          THEN {l2_result(duckdb_pages[key])} ELSE {})

\* C21: a get or a put during which the call to Redis or the call to the L2
\* service fails raises nothing to its caller and completes with the layers
\* that work: the put leaves its payload in the memory cache of L1 (and in
\* Redis when the Redis call got through), the get returns a value one of
\* the answering layers holds, and absent only when none holds one or one
\* holds an empty payload.
C21_LayerFailureTolerated ==
    [][(cacheRequests' # cacheRequests /\ fault' # NoFault) =>
         LET key == KeyOf(cacheOp'.request)
             held == {v \in HeldBy(key, fault') : Truthy(v)}
         IN /\ ~cacheOp'.raised
            /\ (cacheOp'.op = "put" /\ cacheOp'.ttl > 0) =>
                 /\ key \in LruKeys(memory_cache')
                 /\ lru_value(Lru(memory_cache', current_size_bytes'), key)
                        = cacheOp'.data
                 /\ (redis_client /\ ~fault'.redis) =>
                        redis_data'[key] = cacheOp'.data
            /\ cacheOp'.op = "get" =>
                 IF held = {} THEN cacheOp'.result = None
                 ELSE IF Dict({}) \in HeldBy(key, fault')
                 THEN cacheOp'.result \in held \cup {None}
                 ELSE cacheOp'.result \in held]_vars

\* A get was answered while the call to Redis failed.
C21_Witness ==
    /\ cacheOp.op = "get"
    /\ fault.redis
    /\ Truthy(cacheOp.result)
    /\ ~cacheOp.raised

(***************************************************************************)
(* Best selectors: GET /cache/element/{domain}/{element_type} of the       *)
(* DuckDB service, read through DuckDBClient.get_best_selectors and        *)
(* ExtractorCacheService.get_best_selectors, over a cached_elements table  *)
(* that persists across restarts and grows by POST /cache/element.         *)
(***************************************************************************)

\* LIMIT of the handler's SELECT.
BestLimit == 5

\* ORDER BY (success_count - fail_count) DESC, avg_find_time_ms ASC: row a
\* is placed before row b.  Rows equal in both are in no fixed order.
Score(row) == row.success_count - row.fail_count
OrderBy_TimeFirst(a, b) ==
    \/ RatLess(a.avg_find_time_ms, b.avg_find_time_ms)
    \/ /\ a.avg_find_time_ms = b.avg_find_time_ms
       /\ Score(a) > Score(b)
OrderBy(a, b) ==
    \/ Score(a) > Score(b)
    \/ /\ Score(a) = Score(b)
       /\ RatLess(a.avg_find_time_ms, b.avg_find_time_ms)

\* WHERE domain = ? AND element_type = ? AND success_count > fail_count
Where(table, domain, element_type) ==
    {row \in table : /\ row.domain = domain
                     /\ row.element_type = element_type
                     /\ row.success_count > row.fail_count}

\* fetchall of the ordered, limited SELECT: every sequence the database may
\* return.
RECURSIVE fetchall(_, _)
fetchall(rows, limit) ==
    IF rows = {} \/ limit = 0 THEN {<< >>}
    ELSE UNION {{<<first>> \o rest : rest \in fetchall(rows \ {first}, limit - 1)} :
                   first \in {row \in rows :
                                 \A other \in rows : ~OrderBy(other, row)}}

\* One record of the response, built from a fetched row.
SelectorInfo(row) ==
    [selector |-> row.selector,
     success_rate |-> IF row.success_count + row.fail_count > 0
                      THEN Rat(row.success_count,
                               row.success_count + row.fail_count)
                      ELSE Rat(0, 1),
     success_count |-> row.success_count,
     fail_count |-> row.fail_count,
     avg_time_ms |-> row.avg_find_time_ms]

\* get_best_selector of the DuckDB service (404 when nothing matches), as
\* DuckDBClient.get_best_selectors returns it: the list of records, and the
\* empty list for a 404 or a failed request.
get_best_selector(table, domain, element_type) ==
    {[i \in 1 .. Len(result) |-> SelectorInfo(result[i])] :
        result \in fetchall(Where(table, domain, element_type), BestLimit)}

\* ExtractorCacheService.get_best_selectors
get_best_selectors(domain, element_type, duckdb_ok) ==
    IF duckdb /\ duckdb_ok
    THEN get_best_selector(cached_elements, domain, element_type)
    ELSE {<< >>}

\* The table the service finds when it starts: empty, or the rows earlier
\* runs left, among them six selectors of one domain and type that
\* succeeded more often than they failed.
Row(id, domain, element_type, selector, success_count, fail_count, avg) ==
    [id |-> id, domain |-> domain, element_type |-> element_type,
     selector |-> selector, success_count |-> success_count,
     fail_count |-> fail_count, avg_find_time_ms |-> avg]
EarlierRows ==
    { Row(1, "example.com", "content", "article", 4, 1, Rat(30, 1)),
      Row(2, "example.com", "content", "main", 3, 0, Rat(10, 1)),
      Row(3, "example.com", "content", "p", 9, 0, Rat(45, 2)),
      Row(4, "example.com", "content", ".content", 2, 1, Rat(0, 1)),
      Row(5, "example.com", "content", "div.content", 1, 0, Rat(10, 1)),
      Row(6, "example.com", "content", "h1", 2, 1, Rat(10, 1)),
      Row(7, "example.com", "content", "nav", 1, 3, Rat(10, 1)),
      Row(8, "example.com", "general", "nav", 7, 0, Rat(10, 1)),
      Row(9, "shop.example.com", "content", "h1", 20, 0, Rat(10, 1)) }

InitBest ==
    /\ cached_elements \in {{}, EarlierRows}
    /\ seq_cached_elements = Cardinality(cached_elements) + 1
    /\ selector_hot = [k \in SelectorKeys |-> 0]
    /\ selectorOp = NoSelectorOp
    /\ selectorCalls = 0

\* The attempts of the scenario: article.main is recorded up to 10 times as
\* a success and twice as a failure, .post-body five times each way, in any
\* order, on one domain and element type.
ScenarioSelectors == {"article.main", ".post-body"}
ScenarioTimes(selector, success) ==
    IF selector = "article.main" THEN (IF success THEN 10 ELSE 2) ELSE 5

BestPost ==
    /\ duckdb
    /\ \E selector \in ScenarioSelectors, success \in BOOLEAN :
         /\ Counter(cached_elements,
                    Triple("shop.example.com", "general", selector),
                    IF success THEN "success_count" ELSE "fail_count")
               < ScenarioTimes(selector, success)
         /\ store_selector_performance("shop.example.com", selector, "general",
                                       success, TRUE)
         /\ selectorOp' = [op |-> "post", domain |-> "shop.example.com",
                           element_type |-> "general",
                           selector |-> selector, success |-> success,
                           recorded |-> TRUE]
    /\ UNCHANGED <<selector_hot, selectorCalls, cacheVars>>

\* A request for the best selectors of a domain and element type.
BestQuery ==
    /\ \E domain \in Domains, element_type \in ElementTypes,
          duckdb_ok \in BOOLEAN :
         \E result \in get_best_selectors(domain, element_type, duckdb_ok) :
            selectorOp' = [op |-> "best", domain |-> domain,
                           element_type |-> element_type,
                           answered |-> duckdb /\ duckdb_ok,
                           result |-> result]
    /\ UNCHANGED <<cached_elements, seq_cached_elements, selector_hot,
                   selectorCalls, cacheVars>>

\* The rows of a domain and element type.
RowsOf(table, domain, element_type) ==
    {row \in table : row.domain = domain /\ row.element_type = element_type}

\* C28: the answer to get_best_selectors(domain, element_type) holds at
\* most 5 records, each of a different row of that domain and element type
\* with the counters of that row, in descending order of successes minus
\* failures and, among equals, ascending order of average find time; and
\* when the rows of that domain and type are article.main with 10 successes
\* and 2 failures and .post-body with 5 successes and 5 failures, the first
\* record is article.main.
C28_BestSelectorsOrdered ==
    [][(selectorOp'.op = "best" /\ selectorOp'.answered) =>
         LET result == selectorOp'.result
             rows == RowsOf(cached_elements, selectorOp'.domain,
                            selectorOp'.element_type)
             RowFor(info) ==
                 {row \in rows : /\ row.selector = info.selector
                                 /\ row.success_count = info.success_count
                                 /\ row.fail_count = info.fail_count
                                 /\ row.avg_find_time_ms = info.avg_time_ms}
             Diff(info) == info.success_count - info.fail_count
         IN  /\ Len(result) <= 5
             /\ \A i \in 1 .. Len(result) : RowFor(result[i]) # {}
             /\ \A i, j \in 1 .. Len(result) :
                    i < j =>
                      /\ result[i].selector # result[j].selector
                      /\ Diff(result[i]) >= Diff(result[j])
                      /\ Diff(result[i]) = Diff(result[j]) =>
                           ~RatLess(result[j].avg_time_ms,
                                    result[i].avg_time_ms)
             /\ ({<<row.selector, row.success_count, row.fail_count>> :
                     row \in rows}
                   = {<<"article.main", 10, 2>>, <<".post-body", 5, 5>>}) =>
                    /\ result # << >>
                    /\ result[1].selector = "article.main"]_vars

\* A request was answered after the attempts of the scenario, and it was
\* answered with article.main alone: .post-body, which failed as often as
\* it succeeded, is not among the rows the service selects.
C28_Witness ==
    /\ selectorOp.op = "best"
    /\ selectorOp.answered
    /\ Len(selectorOp.result) = 1
    /\ selectorOp.result[1].selector = "article.main"
    /\ selectorOp.result[1].success_count = 10
    /\ selectorOp.result[1].fail_count = 2
    /\ \E row \in RowsOf(cached_elements, selectorOp.domain,
                          selectorOp.element_type) :
          /\ row.selector = ".post-body"
          /\ row.success_count = 5
          /\ row.fail_count = 5

(***************************************************************************)
(* Extraction pipeline: ContentExtractor.extract (single selector and      *)
(* universal mode) and extract_parallel over the page of tab 0, with the   *)
(* cache service behind them.  One call runs at a time; a step is the code *)
(* around one awaited call (the challenge check, a cache lookup, the       *)
(* extraction, a cache save).                                              *)
(***************************************************************************)

MaxExtractions == 2

current_url == PlainUrl("example.com", "/foo")
current_domain == "example.com"

NoSelector == ""
ParallelSelectors == {<<"h1">>, <<"h1", "div.content">>}

NoResponse26 == [status |-> "none"]
IdleExtraction == extraction = [pc |-> "idle", n |-> 0]

\* The request the cache is asked with: selector or xpath or 'universal'.
ExtractRequest(selector) ==
    Request(current_url, IF selector = NoSelector THEN "universal" ELSE selector, "")

\* extract(selector=...) or extract_parallel(selectors=...) is called on a
\* page that shows an interactive challenge or does not.
ExtractCall ==
    /\ extraction.pc \in {"idle", "done"}
    /\ extraction.n < MaxExtractions
    /\ \E use_cache \in BOOLEAN, challenge \in BOOLEAN :
         \/ \E selector \in Selectors \cup {NoSelector} :
              extraction' =
                [pc |-> "check", n |-> extraction.n + 1,
                 mode |-> IF selector = NoSelector THEN "universal"
                          ELSE "selector",
                 selector |-> selector, selectors |-> << >>,
                 use_cache |-> use_cache, challenge |-> challenge,
                 solved |-> FALSE, attempted |-> {}, tracked |-> << >>,
                 found |-> << >>, response |-> NoResponse26]
         \/ \E selectors \in ParallelSelectors :
              extraction' =
                [pc |-> IF use_cache THEN "p_lookup" ELSE "p_gather",
                 n |-> extraction.n + 1, mode |-> "parallel",
                 selector |-> NoSelector, selectors |-> selectors,
                 use_cache |-> use_cache, challenge |-> challenge,
                 solved |-> FALSE, attempted |-> {}, tracked |-> << >>,
                 found |-> << >>, response |-> NoResponse26]
    /\ UNCHANGED <<cacheVars, selectorVars>>

\* extract, the check before extraction: cf_is_interactive_challenge_present
\* answers or raises; a challenge found is handed to verify_cf, which
\* returns, raises TimeoutError or raises something else.  Only TimeoutError
\* ends the call; every other exception is swallowed by the bare except.
cf_check ==
    /\ extraction.pc = "check"
    /\ \E present \in (IF extraction.challenge THEN {"present", "raises"}
                       ELSE {"absent", "raises"}) :
         IF present = "present"
         THEN \E verify_cf \in {"solved", "TimeoutError", "raises"} :
                extraction' =
                  CASE verify_cf = "solved" ->
                         [extraction EXCEPT !.pc = "lookup", !.solved = TRUE]
                    [] verify_cf = "TimeoutError" ->
                         [extraction EXCEPT !.pc = "done",
                            !.response = [status |-> "error",
                                          cloudflare_challenge |-> TRUE]]
                    [] OTHER -> [extraction EXCEPT !.pc = "lookup"]
         ELSE extraction' = [extraction EXCEPT !.pc = "lookup"]
    /\ UNCHANGED <<cacheVars, selectorVars>>

\* extract, the cache check: a cached response is returned as it is.
cache_check ==
    /\ extraction.pc = "lookup"
    /\ IF extraction.use_cache
       THEN /\ \E redis_ok \in Reachable(redis_client,
                                         ExtractRequest(extraction.selector)),
                  duckdb_ok \in Reachable(duckdb,
                                          ExtractRequest(extraction.selector)) :
                 get_cached_extraction(ExtractRequest(extraction.selector),
                                       redis_ok, duckdb_ok)
            /\ extraction' =
                 IF Truthy(cacheOp'.result)
                 THEN [extraction EXCEPT !.pc = "done",
                         !.response = [status |-> "success", cached |-> TRUE]]
                 ELSE [extraction EXCEPT !.pc = "find"]
            /\ UNCHANGED <<redis_client, duckdb, now, cacheRequests, tierLog,
                           recency, fault>>
       ELSE /\ extraction' = [extraction EXCEPT !.pc = "find"]
            /\ UNCHANGED cacheVars
    /\ UNCHANGED selectorVars

\* get_optimized_selector(url, "general"): the first of the best selectors
\* of the domain with a success rate above 0.8, if there is one.
get_optimized_selector(best_selectors) ==
    LET good == {i \in 1 .. Len(best_selectors) :
                    RatLess(Rat(4, 5), best_selectors[i].success_rate)}
    IN  IF good = {} THEN NoSelector
        ELSE best_selectors[CHOOSE i \in good : \A j \in good : i <= j].selector

\* extract, from the cache miss to the end of the extraction.  Without a
\* selector the optimized selector of the domain is used when there is one,
\* and the smart extraction (Trafilatura, then the progressive selectors)
\* otherwise.  With a selector tab.find returns an element, returns nothing
\* or raises, and the attempt is reported to the cache service.
find ==
    /\ extraction.pc = "find"
    /\ \E duckdb_ok \in BOOLEAN :
       \E best \in (IF extraction.selector = NoSelector
                    THEN get_best_selectors(current_domain, "general", duckdb_ok)
                    ELSE {<< >>}) :
         LET selector == IF extraction.selector = NoSelector
                         THEN get_optimized_selector(best)
                         ELSE extraction.selector
         IN
         IF selector = NoSelector
         THEN /\ \E text \in {"hello", ""} :
                   extraction' =
                     [extraction EXCEPT
                        !.pc = "save",
                        !.attempted = @ \cup {"universal"},
                        !.response = [status |-> "success",
                                      data |-> DictValue,
                                      count |-> IF text = "" THEN 0 ELSE 1]]
              /\ UNCHANGED selectorVars
         ELSE \E outcome \in {"element", "nothing", "raises"},
                 hit \in BOOLEAN, track_ok \in BOOLEAN :
                /\ track_selector_performance(current_domain, selector,
                                              outcome = "element", hit, track_ok)
                /\ UNCHANGED selectorCalls
                /\ extraction' =
                     [extraction EXCEPT
                        !.pc = "save",
                        !.selector = selector,
                        !.attempted = @ \cup {selector},
                        !.tracked = Append(@, [selector |-> selector,
                                               success |-> outcome = "element"]),
                        !.response =
                           CASE outcome = "element" ->
                                  [status |-> "success", data |-> DictValue,
                                   count |-> 1]
                             [] outcome = "nothing" ->
                                  [status |-> "success", data |-> "None",
                                   count |-> 0]
                             [] OTHER -> [status |-> "error"]]
    /\ UNCHANGED cacheVars

\* The response as the cache stores it.
CachedResponse(data) == Dict({<<"status", "success">>, <<"data", data>>})

\* extract, the cache save: a successful response with data is cached under
\* selector or xpath or 'universal'.
cache_save ==
    /\ extraction.pc = "save"
    /\ extraction' = [extraction EXCEPT !.pc = "done"]
    /\ IF /\ extraction.use_cache
          /\ extraction.response.status = "success"
          /\ extraction.response.data # "None"
       THEN /\ \E redis_ok \in Reachable(redis_client,
                                         ExtractRequest(extraction.selector)),
                  duckdb_ok \in Reachable(duckdb,
                                          ExtractRequest(extraction.selector)) :
                 cache_extraction(ExtractRequest(extraction.selector),
                                  CachedResponse(extraction.response.data),
                                  redis_ok, duckdb_ok)
            /\ UNCHANGED <<redis_client, duckdb, now, cacheRequests, tierLog,
                           recency, fault>>
       ELSE UNCHANGED cacheVars
    /\ UNCHANGED selectorVars

\* extract_parallel, the cache check of the next selector of the list.
p_lookup ==
    /\ extraction.pc = "p_lookup"
    /\ LET i == Len(extraction.found) + 1
           selector == extraction.selectors[i]
       IN /\ \E redis_ok \in Reachable(redis_client, ExtractRequest(selector)),
                duckdb_ok \in Reachable(duckdb, ExtractRequest(selector)) :
               get_cached_extraction(ExtractRequest(selector), redis_ok,
                                     duckdb_ok)
          /\ extraction' =
               [extraction EXCEPT
                  !.found = Append(@, IF Truthy(cacheOp'.result)
                                      THEN "cached" ELSE "uncached"),
                  !.pc = IF i = Len(extraction.selectors)
                         THEN "p_gather" ELSE "p_lookup"]
    /\ UNCHANGED <<redis_client, duckdb, now, cacheRequests, tierLog,
                   recency, fault, selectorVars>>

\* extract_parallel, the gather of _extract_single_selector over the
\* selectors the cache did not answer: each returns the text of the element
\* or None (nothing found, or an exception, which it swallows).
p_gather ==
    /\ extraction.pc = "p_gather"
    /\ LET n == Len(extraction.selectors)
           uncached == {i \in 1 .. n : \/ ~extraction.use_cache
                                       \/ extraction.found[i] = "uncached"}
       IN \E results \in [1 .. n -> {"text", "None"}] :
            extraction' =
              [extraction EXCEPT
                 !.attempted = {extraction.selectors[i] : i \in uncached},
                 !.found = [i \in 1 .. n |->
                              IF i \in uncached THEN results[i] ELSE "cached"],
                 !.pc = "p_save"]
    /\ UNCHANGED <<cacheVars, selectorVars>>

\* extract_parallel, the cache saves of the fresh results and the response.
\* The saves are made one after the other; the step is all of them when
\* there is at most one, and the first fresh result otherwise.
ToSave(e) ==
    {i \in 1 .. Len(e.selectors) : e.use_cache /\ e.found[i] = "text"}

p_save ==
    /\ extraction.pc = "p_save"
    /\ IF ToSave(extraction) = {}
       THEN /\ extraction' =
                 [extraction EXCEPT !.pc = "done",
                    !.response = [status |-> "success",
                                  count |-> Len(extraction.selectors)]]
            /\ UNCHANGED cacheVars
       ELSE LET i == CHOOSE i \in ToSave(extraction) :
                        \A j \in ToSave(extraction) : i <= j
                selector == extraction.selectors[i]
            IN /\ \E redis_ok \in Reachable(redis_client,
                                            ExtractRequest(selector)),
                     duckdb_ok \in Reachable(duckdb, ExtractRequest(selector)) :
                    cache_extraction(ExtractRequest(selector),
                                     CachedResponse("hello"), redis_ok,
                                     duckdb_ok)
               /\ extraction' = [extraction EXCEPT !.found[i] = "saved"]
               /\ UNCHANGED <<redis_client, duckdb, now, cacheRequests,
                              tierLog, recency, fault>>
    /\ UNCHANGED selectorVars

\* C26: while the page shows an interactive challenge that has not been
\* solved, no extraction is attempted in any mode, and the call ends with a
\* challenge error.
C26_ChallengeBlocksExtraction ==
    (/\ extraction.pc # "idle"
     /\ extraction.challenge
     /\ ~extraction.solved) =>
        /\ extraction.attempted = {}
        /\ extraction.pc = "done" =>
              /\ extraction.response.status = "error"
              /\ "cloudflare_challenge" \in DOMAIN extraction.response

\* The attempts at a selector that the call reported to the cache service.
Reports(e, selector) ==
    {i \in 1 .. Len(e.tracked) : e.tracked[i].selector = selector}

\* C27: when a call has ended, every selector it attempted an extraction
\* with, in single and in parallel mode, found or not, has been reported to
\* the cache service exactly once for the host of the page.
C27_EveryAttemptRecorded ==
    extraction.pc = "done" =>
        \A selector \in extraction.attempted \ {"universal"} :
            Cardinality(Reports(extraction, selector)) = 1

(***************************************************************************)
(* Profile directories: BrowserManager.__init__ with                       *)
(* _create_secure_base_dir and _safe_mkdir, and the directory work of      *)
(* _create_browser and _restore_session_data, over a file system that      *)
(* earlier runs and other local processes have left in /tmp.  A path is    *)
(* the sequence of its names; the kernel is the only writer while it runs. *)
(***************************************************************************)

TmpDir == <<"tmp">>
BaseDir == TmpDir \o <<"zenbot_profiles">>
ProfilePath == BaseDir \o <<"profile_0f3a">>
SessionPath == BaseDir \o <<"session-data">>
OtherInside == BaseDir \o <<"other">>
Elsewhere == TmpDir \o <<"elsewhere">>
LinkTargets == {OtherInside, Elsewhere}

Paths ==
    {TmpDir, BaseDir, ProfilePath, SessionPath, OtherInside, Elsewhere}
        \cup {p \o <<"Default">> : p \in {ProfilePath, OtherInside, Elsewhere}}

Absent == [kind |-> "absent", target |-> << >>]
Directory == [kind |-> "dir", target |-> << >>]
Symlink(target) == [kind |-> "link", target |-> target]

Parent(path) == SubSeq(path, 1, Len(path) - 1)
\* Path.parents, nearest first.
Parents(path) == [i \in 1 .. Len(path) - 1 |-> SubSeq(path, 1, Len(path) - i)]

\* Path.resolve() (not strict): links are followed name by name, names that
\* do not exist are kept.  The targets of the links of this model are
\* themselves free of links.
RECURSIVE ResolveFrom(_, _, _)
ResolveFrom(f, at, names) ==
    IF names = << >> THEN at
    ELSE LET next == at \o <<Head(names)>> IN
         IF next \in DOMAIN f /\ f[next].kind = "link"
         THEN ResolveFrom(f, f[next].target, Tail(names))
         ELSE ResolveFrom(f, next, Tail(names))

resolve(f, path) == ResolveFrom(f, << >>, path)

\* Path.is_symlink(): lstat of the path itself.
is_symlink(f, path) == path \in DOMAIN f /\ f[path].kind = "link"
\* Path.is_dir() and Path.exists() follow links.
is_dir(f, path) ==
    resolve(f, path) \in DOMAIN f /\ f[resolve(f, path)].kind = "dir"
exists(f, path) == is_dir(f, path)

\* abs_path.relative_to(self.secure_base) does not raise.
relative_to(path, base) ==
    Len(path) >= Len(base) /\ SubSeq(path, 1, Len(base)) = base

\* A name of the path is a symbolic link.
PassesSymlink(f, path) ==
    \E i \in 1 .. Len(path) : is_symlink(f, SubSeq(path, 1, i))

\* Path.mkdir(parents=True, exist_ok=True): os.mkdir, which follows the links
\* of the parent and fails on anything that exists under the last name; a
\* missing parent is made first; an existing path is accepted when it is a
\* directory (through links).  The result is the file system, the places
\* where directories were made, and whether an OSError was raised.
RECURSIVE mkdir(_, _)
mkdir(f, path) ==
    LET place == resolve(f, Parent(path)) \o <<path[Len(path)]>>
        up == mkdir(f, Parent(path))
    IN  IF f[place].kind # "absent"
        THEN [fs |-> f, made |-> {}, raised |-> ~is_dir(f, path)]
        ELSE IF is_dir(f, Parent(path))
        THEN [fs |-> [f EXCEPT ![place] = Directory], made |-> {place},
              raised |-> FALSE]
        ELSE IF up.raised \/ ~is_dir(up.fs, Parent(path)) THEN up
        ELSE [fs |-> [up.fs EXCEPT ![place] = Directory],
              made |-> up.made \cup {place}, raised |-> FALSE]

\* BrowserManager._create_secure_base_dir
_create_secure_base_dir(f) ==
    LET created == mkdir(f, BaseDir) IN
    [fs |-> created.fs, made |-> created.made, raised |-> created.raised,
     secure_base |-> resolve(created.fs, BaseDir)]

\* The symlink test of _safe_mkdir on the resolved path and on its parents
\* up to the secure base.
SymlinkDetected(f, abs_path, secure_base) ==
    \/ is_symlink(f, abs_path)
    \/ \E i \in 1 .. Len(abs_path) - 1 :
         /\ is_symlink(f, Parents(abs_path)[i])
         /\ \A j \in 1 .. i - 1 : Parents(abs_path)[j] # secure_base

\* BrowserManager._safe_mkdir: the error it raises ("none" when it returns)
\* and the file system it leaves.
_safe_mkdir(f, target_path, secure_base) ==
    LET abs_path == resolve(f, target_path)
        created == mkdir(f, abs_path)
    IN  IF ~relative_to(abs_path, secure_base)
        THEN [fs |-> f, made |-> {}, error |-> "SecurityError"]
        ELSE IF SymlinkDetected(f, abs_path, secure_base)
        THEN [fs |-> f, made |-> {}, error |-> "SecurityError"]
        ELSE [fs |-> created.fs, made |-> created.made,
              error |-> IF created.raised THEN "OSError" ELSE "none"]

NoManager ==
    [status |-> "none", error |-> "none", secure_base |-> << >>,
     rejected |-> {}, accepted |-> {}]

IdleProfile ==
    /\ fs = [p \in Paths |-> IF p = TmpDir THEN Directory ELSE Absent]
    /\ manager = NoManager
    /\ made = {}

\* What the kernel can find in /tmp: nothing, or the base directory of an
\* earlier run, in which each of the two directories is missing, is a
\* directory, or is a link to a place inside or outside the base.
InitProfile ==
    /\ manager = NoManager
    /\ made = {}
    /\ \E base \in {Absent, Directory},
          profile \in {Absent, Directory} \cup {Symlink(t) : t \in LinkTargets},
          session \in {Absent, Directory} \cup {Symlink(t) : t \in LinkTargets},
          other \in {Absent, Directory}, elsewhere \in {Absent, Directory} :
         /\ base = Absent => profile = Absent /\ session = Absent /\ other = Absent
         /\ fs = [p \in Paths |->
                    CASE p = TmpDir -> Directory
                      [] p = BaseDir -> base
                      [] p = ProfilePath -> profile
                      [] p = SessionPath -> session
                      [] p = OtherInside -> other
                      [] p = Elsewhere -> elsewhere
                      [] OTHER -> Absent]

\* A directory the kernel made: the path it asked for, the place where the
\* directory is, and whether the path asked for passed through a link.
Made(f, asked, places) ==
    {[asked |-> asked, place |-> place, symlinked |-> PassesSymlink(f, asked)] :
        place \in places}

\* BrowserManager.__init__ (get_browser_manager builds the manager on the
\* first request, and again after a construction that raised).
BrowserManager_init ==
    /\ manager.status \in {"none", "failed"}
    /\ LET base == _create_secure_base_dir(fs)
           profile == _safe_mkdir(base.fs, ProfilePath, base.secure_base)
           session == _safe_mkdir(profile.fs, SessionPath, base.secure_base)
           bad(f, path) == \/ ~relative_to(resolve(f, path), base.secure_base)
                           \/ PassesSymlink(f, path)
           seen == [status |-> "none", error |-> "none",
                    secure_base |-> base.secure_base,
                    rejected |-> {}, accepted |-> {}]
       IN  IF base.raised
           THEN /\ manager' = [seen EXCEPT !.status = "failed",
                                           !.error = "OSError"]
                /\ fs' = base.fs
                /\ made' = made
           ELSE IF profile.error # "none"
           THEN /\ manager' =
                     [seen EXCEPT !.status = "failed", !.error = profile.error,
                        !.rejected = {ProfilePath}]
                /\ fs' = profile.fs
                /\ made' = made \cup Made(fs, BaseDir, base.made)
           ELSE /\ manager' =
                     [seen EXCEPT
                        !.status = IF session.error = "none"
                                   THEN "constructed" ELSE "failed",
                        !.error = session.error,
                        !.rejected = IF session.error = "none" THEN {}
                                     ELSE {SessionPath},
                        !.accepted =
                           {p \in {ProfilePath} : bad(base.fs, p)} \cup
                           {p \in {SessionPath} :
                               session.error = "none" /\ bad(profile.fs, p)}]
                /\ fs' = session.fs
                /\ made' = made \cup Made(fs, BaseDir, base.made)
                                \cup Made(base.fs, ProfilePath, profile.made)
                                \cup Made(profile.fs, SessionPath, session.made)

\* _create_browser, its work on directories: the two directories are made
\* again without a check, and _restore_session_data, when the session
\* directory exists, makes the profile directory and its Default directory
\* (its exceptions are caught and logged).
create_browser_directories ==
    /\ manager.status = "constructed"
    /\ LET profile == mkdir(fs, ProfilePath)
           session == mkdir(profile.fs, SessionPath)
           restore == mkdir(session.fs, ProfilePath \o <<"Default">>)
       IN  IF profile.raised \/ session.raised
           THEN /\ fs' = (IF profile.raised THEN profile.fs ELSE session.fs)
                /\ made' = made \cup Made(fs, ProfilePath, profile.made)
                /\ manager' = [manager EXCEPT !.status = "start failed",
                                              !.error = "OSError"]
           ELSE /\ fs' = (IF exists(session.fs, SessionPath)
                          THEN restore.fs ELSE session.fs)
                /\ made' = made \cup Made(fs, ProfilePath, profile.made)
                                \cup Made(profile.fs, SessionPath, session.made)
                                \cup (IF exists(session.fs, SessionPath)
                                      THEN Made(session.fs,
                                                ProfilePath \o <<"Default">>,
                                                restore.made)
                                      ELSE {})
                /\ manager' = [manager EXCEPT !.status = "started"]

\* C30: every directory the kernel has made is under the secure base and was
\* asked for by a path without a symbolic link; and a profile path that
\* escaped the base or passed through a symbolic link when the manager was
\* built was rejected: no construction succeeded with it.
C30_ProfilePathsConfined ==
    /\ \A m \in made :
         /\ manager.secure_base # << >> => relative_to(m.place, manager.secure_base)
         /\ ~m.symlinked
    /\ manager.accepted = {}

(***************************************************************************)
(* Operations on the page: navigate, click, type and extract, each of      *)
(* which awaits get_tab() and then works on the tab it was handed, run by  *)
(* concurrent requests.                                                    *)
(***************************************************************************)

TabOperations == {"navigate", "click", "type", "extract"}

NoOperation == [op |-> "none", phase |-> "none", tab |-> NoBrowser]

IdleOps == tabOps = [c \in Callers |-> NoOperation]

\* A request for an operation arrives and its handler awaits get_tab().
OperationCall(c) ==
    /\ kpc[c] = "idle"
    /\ tabOps[c].phase = "none"
    /\ nextBrowser <= MaxBrowsers
    /\ \E op \in TabOperations :
         tabOps' = [tabOps EXCEPT ![c] = [op |-> op, phase |-> "get_tab",
                                          tab |-> NoBrowser]]
    /\ kop' = [kop EXCEPT ![c] = "get_tab"]
    /\ kpc' = [kpc EXCEPT ![c] = "gt_quick"]
    /\ kloc' = [kloc EXCEPT ![c] = NoBrowser]
    /\ UNCHANGED <<browser, browser_tab, browser_lock, tab_creation_lock, live,
                   nextBrowser, kret>>

\* get_tab has returned: the handler issues the operation on the tab
\* (tab.get(url), element.click(), element.send_keys(text), tab.find(...))
\* and is suspended in it.
OperationStart(c) ==
    /\ tabOps[c].phase = "get_tab"
    /\ kpc[c] = "idle"
    /\ tabOps' = [tabOps EXCEPT ![c].phase = "on_tab", ![c].tab = kret[c]]
    /\ UNCHANGED kernelVars

\* The operation comes back (or raises) and the handler answers.
OperationEnd(c) ==
    /\ tabOps[c].phase = "on_tab"
    /\ tabOps' = [tabOps EXCEPT ![c] = NoOperation]
    /\ UNCHANGED kernelVars

\* The callers whose operation is executing against the tab.
Executing(t) ==
    {c \in Callers : tabOps[c].phase = "on_tab" /\ tabOps[c].tab = t}

\* C32: no two mutating operations execute against Tab-0 at the same time.
C32_TabZeroSerialized ==
    \A t \in BrowserIds : Cardinality(Executing(t)) <= 1

(***************************************************************************)
(* Concurrent selector tracking: several track_selector_performance calls  *)
(* on one event loop.  A call is suspended where it awaits Redis (the GET  *)
(* inside cache.get, the SETEX inside cache.set); the memory cache is read *)
(* and written without suspension, its lock being free whenever a task     *)
(* runs.  Redis is reachable when it is configured.                        *)
(***************************************************************************)

NumTrackers == 3
Trackers == 1 .. NumTrackers
Outcomes == BOOLEAN

NoCount == -1
IdleTracker == [pc |-> "idle", success |-> FALSE, count |-> NoCount]

IdleTracking ==
    /\ tracking = [t \in Trackers |-> IdleTracker]
    /\ hot = [configured |-> FALSE,
              redis |-> [o \in Outcomes |-> NoCount],
              memory |-> [o \in Outcomes |-> NoCount]]

InitTracking ==
    /\ tracking = [t \in Trackers |-> IdleTracker]
    /\ \E configured \in BOOLEAN :
          hot = [configured |-> configured,
                 redis |-> [o \in Outcomes |-> NoCount],
                 memory |-> [o \in Outcomes |-> NoCount]]

\* CacheManager.get once Redis has answered (or at once without Redis): the
\* Redis value when there is one, otherwise what the memory cache holds.
hot_get(success) ==
    IF hot.configured /\ hot.redis[success] # NoCount
    THEN hot.redis[success]
    ELSE hot.memory[success]

\* `await self.cache.get(key) or 0`
hot_count(success) == IF hot_get(success) = NoCount THEN 0 ELSE hot_get(success)

\* CacheManager.set: SETEX when Redis is configured, then the memory cache.
hot_set(success, value) ==
    [hot EXCEPT !.redis[success] = IF hot.configured THEN value ELSE @,
                !.memory[success] = value]

\* track_selector_performance is called.  With Redis the call is suspended
\* in the GET; without it the counter is read, raised and written back
\* before any other task runs.
TrackCall(t) ==
    /\ tracking[t].pc = "idle"
    /\ \E success \in Outcomes :
         IF hot.configured
         THEN /\ tracking' = [tracking EXCEPT ![t] =
                                 [pc |-> "get", success |-> success,
                                  count |-> NoCount]]
              /\ UNCHANGED hot
         ELSE /\ tracking' = [tracking EXCEPT ![t] =
                                 [pc |-> "done", success |-> success,
                                  count |-> hot_count(success)]]
              /\ hot' = hot_set(success, hot_count(success) + 1)

\* The GET has answered: count is taken and the SETEX of count + 1 is sent.
TrackGetReturn(t) ==
    /\ tracking[t].pc = "get"
    /\ tracking' = [tracking EXCEPT ![t] =
                       [@ EXCEPT !.pc = "set",
                                 !.count = hot_count(tracking[t].success)]]
    /\ UNCHANGED hot

\* The SETEX has been served and the memory cache is written.
TrackSetReturn(t) ==
    /\ tracking[t].pc = "set"
    /\ hot' = hot_set(tracking[t].success, tracking[t].count + 1)
    /\ tracking' = [tracking EXCEPT ![t] = [@ EXCEPT !.pc = "done"]]

Tracked(success) ==
    {t \in Trackers : tracking[t].pc # "idle" /\ tracking[t].success = success}

\* C38: once the N attempts tracked for one (domain, selector, outcome) have
\* all returned, the hot counter of that key stands exactly N above where
\* it started (the counters start empty): no increment is lost.
C38_NoLostIncrement ==
    \A success \in Outcomes :
        (\A t \in Tracked(success) : tracking[t].pc = "done")
        => hot_count(success) = Cardinality(Tracked(success))

(***************************************************************************)
(* The tab pool (utils/tab_manager.py): get_new_tab, get_tab and           *)
(* release_tab of one TabPool, called by tasks of one event loop.  A call  *)
(* is suspended where it waits for the pool lock and where it awaits the   *)
(* browser (tab.get, browser.new_tab, tab.evaluate).                       *)
(***************************************************************************)

max_tabs == 2
MaxPoolTabs == 3
MaxPoolTime == 1
Sessions == 1 .. (max_tabs + 1)
PoolOps == {"get_new_tab", "get_tab", "release_tab"}

NoPoolTab == 0
NoSession == 0
IdlePoolCall ==
    [pc |-> "idle", op |-> "none", session |-> NoSession, tab |-> NoPoolTab,
     ret |-> NoPoolTab]

\* TabPool.__init__
IdlePool ==
    /\ pool = [active_tabs |-> << >>, available_tabs |-> << >>,
               lock |-> NoCaller, nextTab |-> 1, time |-> 0]
    /\ poolCalls = [c \in Callers |-> IdlePoolCall]

\* active_tabs is a dict: its items in insertion order.
ActiveIndex(active, session) ==
    CHOOSE i \in 1 .. Len(active) : active[i].session = session
InActive(active, session) ==
    \E i \in 1 .. Len(active) : active[i].session = session
TabInfo(session, tab, time) ==
    [session |-> session, tab |-> tab, last_used |-> time]
\* self.active_tabs[session_id] = {...}
Assign(active, session, tab, time) ==
    IF InActive(active, session)
    THEN [active EXCEPT ![ActiveIndex(active, session)] =
              TabInfo(session, tab, time)]
    ELSE Append(active, TabInfo(session, tab, time))
\* self.active_tabs.pop(session_id) / del self.active_tabs[session_id]
Pop(active, session) == SelectSeq(active, LAMBDA e : e.session # session)

\* min(self.active_tabs.items(), key=last_used)[0]: the first of the least
\* recently used sessions.
oldest_session(active) ==
    LET i == CHOOSE i \in 1 .. Len(active) :
                 /\ \A j \in 1 .. Len(active) :
                        active[i].last_used <= active[j].last_used
                 /\ \A j \in 1 .. (i - 1) :
                        active[j].last_used > active[i].last_used
    IN  active[i].session

\* The body of release_tab, under the lock.
release_tab(p, session) ==
    IF InActive(p.active_tabs, session)
    THEN [p EXCEPT !.active_tabs = Pop(@, session),
                   !.available_tabs =
                       Append(@, p.active_tabs[ActiveIndex(p.active_tabs,
                                                           session)].tab)]
    ELSE p

\* A task calls an operation of the pool and reaches its `async with
\* self._lock`.
PoolCall(c) ==
    /\ poolCalls[c].pc = "idle"
    /\ \E op \in PoolOps, session \in Sessions :
         /\ op = "get_new_tab" => pool.nextTab <= MaxPoolTabs
         /\ poolCalls' = [poolCalls EXCEPT ![c] =
                             [pc |-> "lock", op |-> op, session |-> session,
                              tab |-> NoPoolTab, ret |-> NoPoolTab]]
    /\ UNCHANGED pool

\* _cleanup_oldest_tab, called by get_new_tab inside its lock: with no active
\* tab it returns, otherwise it calls release_tab, which waits for the lock.
_cleanup_oldest_tab(c) ==
    IF pool.active_tabs = << >>
    THEN [poolCalls[c] EXCEPT !.pc = "new_tab"]
    ELSE [poolCalls[c] EXCEPT !.pc = "release_lock",
                              !.tab = oldest_session(pool.active_tabs)]

\* `async with self._lock` is entered: the lock is free and the task takes
\* it.  The code runs on to its next suspension, or to its return, which
\* leaves the lock.
lock_acquired(c) ==
    LET call == poolCalls[c] IN
    /\ call.pc \in {"lock", "release_lock"}
    /\ pool.lock = NoCaller
    /\ CASE call.pc = "release_lock" ->
              \* release_tab called by _cleanup_oldest_tab: on its return
              \* get_new_tab goes on to browser.new_tab
              /\ pool' = release_tab(pool, call.tab)
              /\ poolCalls' = [poolCalls EXCEPT ![c] =
                                  [call EXCEPT !.pc = "new_tab", !.tab = NoPoolTab]]
         [] call.op = "release_tab" ->
              /\ pool' = release_tab(pool, call.session)
              /\ poolCalls' = [poolCalls EXCEPT ![c] =
                                  IdlePoolCall]
         [] call.op = "get_tab" ->
              IF InActive(pool.active_tabs, call.session)
              THEN LET i == ActiveIndex(pool.active_tabs, call.session) IN
                   /\ pool' = [pool EXCEPT !.lock = c,
                                  !.active_tabs[i].last_used = pool.time]
                   /\ poolCalls' = [poolCalls EXCEPT ![c] =
                                       [call EXCEPT !.pc = "alive",
                                          !.tab = pool.active_tabs[i].tab]]
              ELSE /\ poolCalls' = [poolCalls EXCEPT ![c] =
                                       IdlePoolCall]
                   /\ UNCHANGED pool
         [] call.op = "get_new_tab" ->
              IF pool.available_tabs # << >>
              THEN /\ pool' = [pool EXCEPT !.lock = c,
                                           !.available_tabs = Tail(@)]
                   /\ poolCalls' = [poolCalls EXCEPT ![c] =
                                       [call EXCEPT !.pc = "reset",
                                          !.tab = Head(pool.available_tabs)]]
              ELSE /\ pool' = [pool EXCEPT !.lock = c]
                   /\ poolCalls' = [poolCalls EXCEPT ![c] =
                          IF Len(pool.active_tabs) >= max_tabs
                          THEN _cleanup_oldest_tab(c)
                          ELSE [call EXCEPT !.pc = "new_tab"]]

\* get_new_tab: tab.get("about:blank") has returned on the reused tab.
reset_return(c) ==
    LET call == poolCalls[c] IN
    /\ call.pc = "reset"
    /\ pool' = [pool EXCEPT !.lock = NoCaller,
                   !.active_tabs = Assign(@, call.session, call.tab, pool.time)]
    /\ poolCalls' = [poolCalls EXCEPT ![c] =
                        [IdlePoolCall EXCEPT !.ret = call.tab]]

\* get_new_tab: browser.new_tab("about:blank") has returned.
new_tab_return(c) ==
    LET call == poolCalls[c] IN
    /\ call.pc = "new_tab"
    /\ pool' = [pool EXCEPT !.lock = NoCaller, !.nextTab = @ + 1,
                   !.active_tabs = Assign(@, call.session, pool.nextTab,
                                          pool.time)]
    /\ poolCalls' = [poolCalls EXCEPT ![c] =
                        [IdlePoolCall EXCEPT !.ret = pool.nextTab]]

\* get_tab: _is_tab_alive has answered.
alive_return(c) ==
    LET call == poolCalls[c] IN
    /\ call.pc = "alive"
    /\ \E alive \in BOOLEAN :
         IF alive
         THEN /\ pool' = [pool EXCEPT !.lock = NoCaller]
              /\ poolCalls' = [poolCalls EXCEPT ![c] =
                                  [IdlePoolCall EXCEPT !.ret = call.tab]]
         ELSE /\ pool' = [pool EXCEPT !.lock = NoCaller,
                             !.active_tabs = Pop(@, call.session)]
              /\ poolCalls' = [poolCalls EXCEPT ![c] =
                                  IdlePoolCall]

\* time.time() moves on.
PoolTick ==
    /\ pool.time < MaxPoolTime
    /\ pool' = [pool EXCEPT !.time = @ + 1]
    /\ UNCHANGED poolCalls

\* A call that waits for the pool lock.
WaitsForPoolLock(c) == poolCalls[c].pc \in {"lock", "release_lock"}

\* C39: get_new_tab always returns: it never waits for the pool lock while
\* it holds that lock itself (a wait no step can end), also when the pool
\* is full and it has to move the least recently used session's tab to the
\* available list.
C39_GetNewTabReturns ==
    \A c \in Callers :
        (poolCalls[c].op = "get_new_tab" /\ WaitsForPoolLock(c))
        => pool.lock # c

(***************************************************************************)
(* The connection pool of the DuckDB service: DuckDBPool.acquire and       *)
(* release over the asyncio.Queue of connections, and the request handlers *)
(* that take a connection, query and give it back.  The pool has been      *)
(* initialised by the lifespan start-up.  The queries of a handler block   *)
(* the event loop; here the body of a handler is a step of its own, so     *)
(* that other handlers may run while a connection is held: every run of    *)
(* the service is a run of the model.                                      *)
(***************************************************************************)

pool_size == 2
NumHandlers == 3
MaxDbRequests == 4
Connections == 1 .. pool_size
Handlers == 1 .. NumHandlers
NoConnection == 0
NoHandler == 0

Routes == {"get_cached_page", "cache_element", "get_best_selector",
           "health_check"}
\* How a handler leaves its body: with its response, with
\* HTTPException(404), or with an exception raised by the query.
ExitPaths(route) ==
    IF route \in {"get_cached_page", "get_best_selector"}
    THEN {"success", "404", "exception"}
    ELSE {"success", "exception"}

IdleHandler ==
    [pc |-> "idle", route |-> "none", conn |-> NoConnection, exit |-> "none",
     waited |-> FALSE]

\* DuckDBPool.init: pool_size connections, all in the queue.
IdleDuck ==
    /\ db_pool = [available |-> [i \in Connections |-> i], getters |-> << >>]
    /\ handlers = [h \in Handlers |-> IdleHandler]
    /\ dbRequests = 0

\* Queue.get on a queue that holds an item: the first item is taken and the
\* handler is in its body (waited: it had to wait for the item).
get_nowait(h, route) ==
    /\ db_pool' = [db_pool EXCEPT !.available = Tail(@)]
    /\ handlers' = [handlers EXCEPT ![h] =
                       [pc |-> "holding", route |-> route,
                        conn |-> Head(db_pool.available), exit |-> "none",
                        waited |-> handlers[h].pc = "woken"]]

\* Queue.get on an empty queue: the handler waits as the last getter.
wait_getter(h, route) ==
    /\ db_pool' = [db_pool EXCEPT !.getters = Append(@, h)]
    /\ handlers' = [handlers EXCEPT ![h] =
                       [pc |-> "waiting", route |-> route,
                        conn |-> NoConnection, exit |-> "none",
                        waited |-> TRUE]]

\* DuckDBPool.acquire: await self.available.get()
acquire(h, route) ==
    IF db_pool.available # << >> THEN get_nowait(h, route)
    ELSE wait_getter(h, route)

\* A request arrives: conn = await db_pool.acquire()
HandlerCall(h) ==
    /\ handlers[h].pc = "idle"
    /\ dbRequests < MaxDbRequests
    /\ dbRequests' = dbRequests + 1
    /\ \E route \in Routes : acquire(h, route)

\* A getter woken by a put runs again: Queue.get tests the queue once more.
getter_resumed(h) ==
    /\ handlers[h].pc = "woken"
    /\ acquire(h, handlers[h].route)
    /\ UNCHANGED dbRequests

\* DuckDBPool.release: the connection is put at the end of the queue and the
\* first getter is woken.
release(p, conn) ==
    [available |-> Append(p.available, conn),
     getters |-> IF p.getters = << >> THEN << >> ELSE Tail(p.getters)]

\* A path that leaves the body without the release.
Returned_LeakOn404(p, conn, exit) ==
    IF exit = "404" THEN p ELSE release(p, conn)

\* The pool after a handler has left its body on the given path: the
\* `finally` of the handler (both branches of health_check) releases.
Returned(p, conn, exit) == release(p, conn)

\* A handler leaves its body: with its response, with a 404 or with an
\* exception of the query.
handler_exit(h) ==
    /\ handlers[h].pc = "holding"
    /\ \E exit \in ExitPaths(handlers[h].route) :
         LET after == Returned(db_pool, handlers[h].conn, exit)
             woken == IF after.getters # db_pool.getters
                      THEN Head(db_pool.getters) ELSE NoHandler
         IN  /\ db_pool' = after
             /\ handlers' = [g \in Handlers |->
                    IF g = h
                    THEN [handlers[h] EXCEPT !.pc = "idle",
                                             !.conn = NoConnection,
                                             !.exit = exit,
                                             !.waited = FALSE]
                    ELSE IF g = woken
                    THEN [handlers[g] EXCEPT !.pc = "woken"]
                    ELSE handlers[g]]
    /\ UNCHANGED dbRequests

HeldConnections == {h \in Handlers : handlers[h].conn # NoConnection}
AcquireWaits(h) == handlers[h].pc \in {"waiting", "woken"}

NextTabs ==
    \/ open_background_tab /\ UNCHANGED <<kernelVars, agentVars, repairVars, cacheVars, selectorVars, extractVars, profileVars, opVars, trackVars, poolVars, duckVars>>
    \/ list_tabs /\ UNCHANGED <<kernelVars, agentVars, repairVars, cacheVars, selectorVars, extractVars, profileVars, opVars, trackVars, poolVars, duckVars>>
    \/ CloseTabRoute /\ UNCHANGED <<kernelVars, agentVars, repairVars, cacheVars, selectorVars, extractVars, profileVars, opVars, trackVars, poolVars, duckVars>>
    \/ CloseTabTool /\ UNCHANGED <<kernelVars, agentVars, repairVars, cacheVars, selectorVars, extractVars, profileVars, opVars, trackVars, poolVars, duckVars>>

InitSpecTabs == InitTabs /\ IdleKernel /\ IdleAgent /\ IdleRepair /\ IdleCache /\ IdleSelectors /\ IdleExtraction /\ IdleProfile /\ IdleOps /\ IdleTracking /\ IdlePool /\ IdleDuck

SpecTabs == InitSpecTabs /\ [][NextTabs]_vars

NextBrowser ==
    \/ \E c \in Callers : KernelCall(c) /\ UNCHANGED <<tabVars, agentVars, repairVars, cacheVars, selectorVars, extractVars, profileVars, opVars, trackVars, poolVars, duckVars>>
    \/ \E c \in Callers : gb_enter(c) /\ UNCHANGED <<tabVars, agentVars, repairVars, cacheVars, selectorVars, extractVars, profileVars, opVars, trackVars, poolVars, duckVars>>
    \/ \E c \in Callers : gb_closed(c) /\ UNCHANGED <<tabVars, agentVars, repairVars, cacheVars, selectorVars, extractVars, profileVars, opVars, trackVars, poolVars, duckVars>>
    \/ \E c \in Callers : gb_started(c) /\ UNCHANGED <<tabVars, agentVars, repairVars, cacheVars, selectorVars, extractVars, profileVars, opVars, trackVars, poolVars, duckVars>>
    \/ \E c \in Callers : gt_quick(c) /\ UNCHANGED <<tabVars, agentVars, repairVars, cacheVars, selectorVars, extractVars, profileVars, opVars, trackVars, poolVars, duckVars>>
    \/ \E c \in Callers : gt_quick_probed(c) /\ UNCHANGED <<tabVars, agentVars, repairVars, cacheVars, selectorVars, extractVars, profileVars, opVars, trackVars, poolVars, duckVars>>
    \/ \E c \in Callers : gt_lock(c) /\ UNCHANGED <<tabVars, agentVars, repairVars, cacheVars, selectorVars, extractVars, profileVars, opVars, trackVars, poolVars, duckVars>>
    \/ \E c \in Callers : gt_recheck_probed(c) /\ UNCHANGED <<tabVars, agentVars, repairVars, cacheVars, selectorVars, extractVars, profileVars, opVars, trackVars, poolVars, duckVars>>
    \/ \E c \in Callers : cl_start(c) /\ UNCHANGED <<tabVars, agentVars, repairVars, cacheVars, selectorVars, extractVars, profileVars, opVars, trackVars, poolVars, duckVars>>
    \/ \E c \in Callers : cl_closed(c) /\ UNCHANGED <<tabVars, agentVars, repairVars, cacheVars, selectorVars, extractVars, profileVars, opVars, trackVars, poolVars, duckVars>>
    \/ BrowserCrash /\ UNCHANGED <<tabVars, agentVars, repairVars, cacheVars, selectorVars, extractVars, profileVars, opVars, trackVars, poolVars, duckVars>>

InitSpecBrowser == InitKernel /\ IdleTabs /\ IdleAgent /\ IdleRepair /\ IdleCache /\ IdleSelectors /\ IdleExtraction /\ IdleProfile /\ IdleOps /\ IdleTracking /\ IdlePool /\ IdleDuck

SpecBrowser == InitSpecBrowser /\ [][NextBrowser]_vars

\* The event loop runs every task that can run, every awaited call of the
\* driver comes back, and a released lock goes to a waiter.
KernelProgress(c) ==
    /\ \/ gb_closed(c) \/ gb_started(c) \/ gt_quick(c) \/ gt_quick_probed(c)
       \/ gt_recheck_probed(c) \/ cl_start(c) \/ cl_closed(c)
    /\ UNCHANGED <<tabVars, agentVars, repairVars, cacheVars, selectorVars, extractVars, profileVars, opVars, trackVars, poolVars, duckVars>>

LockProgress(c) ==
    /\ gb_enter(c) \/ gt_lock(c)
    /\ UNCHANGED <<tabVars, agentVars, repairVars, cacheVars, selectorVars, extractVars, profileVars, opVars, trackVars, poolVars, duckVars>>

FairSpecBrowser ==
    /\ InitSpecBrowser
    /\ [][NextBrowser]_vars
    /\ \A c \in Callers : WF_vars(KernelProgress(c)) /\ SF_vars(LockProgress(c))

NextAgent ==
    \/ \E r \in Runs : chat_endpoint(r) /\ UNCHANGED <<tabVars, kernelVars, repairVars, cacheVars, selectorVars, extractVars, profileVars, opVars, trackVars, poolVars, duckVars>>
    \/ \E r \in Runs, id \in RequestIds :
           StreamingCall(r, id) /\ UNCHANGED <<tabVars, kernelVars, repairVars, cacheVars, selectorVars, extractVars, profileVars, opVars, trackVars, poolVars, duckVars>>
    \/ \E r \in Runs, o \in AgentOutcomes :
           AgentRunStep(r, o) /\ UNCHANGED <<tabVars, kernelVars, repairVars, cacheVars, selectorVars, extractVars, profileVars, opVars, trackVars, poolVars, duckVars>>
    \/ \E r \in Runs : stream_chunk(r) /\ UNCHANGED <<tabVars, kernelVars, repairVars, cacheVars, selectorVars, extractVars, profileVars, opVars, trackVars, poolVars, duckVars>>
    \/ \E r \in Runs : stream_done(r) /\ UNCHANGED <<tabVars, kernelVars, repairVars, cacheVars, selectorVars, extractVars, profileVars, opVars, trackVars, poolVars, duckVars>>
    \/ \E r \in Runs : event_generator_done(r) /\ UNCHANGED <<tabVars, kernelVars, repairVars, cacheVars, selectorVars, extractVars, profileVars, opVars, trackVars, poolVars, duckVars>>
    \/ \E r \in Runs : Disconnect(r) /\ UNCHANGED <<tabVars, kernelVars, repairVars, cacheVars, selectorVars, extractVars, profileVars, opVars, trackVars, poolVars, duckVars>>
    \/ \E id \in RequestIds : cancel_agent(id) /\ UNCHANGED <<tabVars, kernelVars, repairVars, cacheVars, selectorVars, extractVars, profileVars, opVars, trackVars, poolVars, duckVars>>
    \/ LastResultRoute /\ UNCHANGED <<tabVars, kernelVars, repairVars, cacheVars, selectorVars, extractVars, profileVars, opVars, trackVars, poolVars, duckVars>>
    \/ \E d \in TickSteps : Tick(d) /\ UNCHANGED <<tabVars, kernelVars, repairVars, cacheVars, selectorVars, extractVars, profileVars, opVars, trackVars, poolVars, duckVars>>

InitSpecAgent == InitAgent /\ IdleTabs /\ IdleKernel /\ IdleRepair /\ IdleCache /\ IdleSelectors /\ IdleExtraction /\ IdleProfile /\ IdleOps /\ IdleTracking /\ IdlePool /\ IdleDuck

SpecAgent == InitSpecAgent /\ [][NextAgent]_vars

\* The worker thread keeps running and the event loop keeps serving a
\* connected subscriber.
AgentProgress(r) ==
    /\ \/ \E o \in AgentOutcomes : AgentRunStep(r, o)
       \/ stream_chunk(r)
       \/ stream_done(r)
       \/ event_generator_done(r)
    /\ UNCHANGED <<tabVars, kernelVars, repairVars, cacheVars, selectorVars, extractVars, profileVars, opVars, trackVars, poolVars, duckVars>>

FairSpecAgent ==
    /\ InitSpecAgent
    /\ [][NextAgent]_vars
    /\ \A r \in Runs : WF_vars(AgentProgress(r))

NextRepair ==
    \/ EmitCode /\ UNCHANGED <<tabVars, kernelVars, agentVars, cacheVars, selectorVars, extractVars, profileVars, opVars, trackVars, poolVars, duckVars>>
    \/ execute /\ UNCHANGED <<tabVars, kernelVars, agentVars, cacheVars, selectorVars, extractVars, profileVars, opVars, trackVars, poolVars, duckVars>>
    \/ StepDone /\ UNCHANGED <<tabVars, kernelVars, agentVars, cacheVars, selectorVars, extractVars, profileVars, opVars, trackVars, poolVars, duckVars>>

InitSpecRepair == InitRepair /\ IdleTabs /\ IdleKernel /\ IdleAgent /\ IdleCache /\ IdleSelectors /\ IdleExtraction /\ IdleProfile /\ IdleOps /\ IdleTracking /\ IdlePool /\ IdleDuck

SpecRepair == InitSpecRepair /\ [][NextRepair]_vars

NextCache ==
    \/ CacheGet /\ UNCHANGED <<tabVars, kernelVars, agentVars, repairVars, selectorVars, extractVars, profileVars, opVars, trackVars, poolVars, duckVars>>
    \/ CachePut /\ UNCHANGED <<tabVars, kernelVars, agentVars, repairVars, selectorVars, extractVars, profileVars, opVars, trackVars, poolVars, duckVars>>

InitSpecCache == InitCache /\ IdleTabs /\ IdleKernel /\ IdleAgent /\ IdleRepair /\ IdleSelectors /\ IdleExtraction /\ IdleProfile /\ IdleOps /\ IdleTracking /\ IdlePool /\ IdleDuck

SpecCache == InitSpecCache /\ [][NextCache]_vars

NextTier ==
    \/ TierPut /\ UNCHANGED <<tabVars, kernelVars, agentVars, repairVars, selectorVars, extractVars, profileVars, opVars, trackVars, poolVars, duckVars>>
    \/ TierGet /\ UNCHANGED <<tabVars, kernelVars, agentVars, repairVars, selectorVars, extractVars, profileVars, opVars, trackVars, poolVars, duckVars>>
    \/ CacheTick /\ UNCHANGED <<tabVars, kernelVars, agentVars, repairVars, selectorVars, extractVars, profileVars, opVars, trackVars, poolVars, duckVars>>

InitSpecTier == InitSpecCache /\ duckdb

SpecTier == InitSpecTier /\ [][NextTier]_vars

NextFault ==
    \/ FaultPut /\ UNCHANGED <<tabVars, kernelVars, agentVars, repairVars, selectorVars, extractVars, profileVars, opVars, trackVars, poolVars, duckVars>>
    \/ FaultGet /\ UNCHANGED <<tabVars, kernelVars, agentVars, repairVars, selectorVars, extractVars, profileVars, opVars, trackVars, poolVars, duckVars>>

InitSpecFault == InitSpecCache

SpecFault == InitSpecFault /\ [][NextFault]_vars

NextLru ==
    \/ LruSet /\ UNCHANGED <<tabVars, kernelVars, agentVars, repairVars, selectorVars, extractVars, profileVars, opVars, trackVars, poolVars, duckVars>>
    \/ LruGet /\ UNCHANGED <<tabVars, kernelVars, agentVars, repairVars, selectorVars, extractVars, profileVars, opVars, trackVars, poolVars, duckVars>>
    \/ _periodic_cleanup /\ UNCHANGED <<tabVars, kernelVars, agentVars, repairVars, selectorVars, extractVars, profileVars, opVars, trackVars, poolVars, duckVars>>
    \/ LruTick /\ UNCHANGED <<tabVars, kernelVars, agentVars, repairVars, selectorVars, extractVars, profileVars, opVars, trackVars, poolVars, duckVars>>

InitSpecLru ==
    /\ IdleCache /\ IdleTabs /\ IdleKernel /\ IdleAgent /\ IdleRepair
    /\ IdleSelectors /\ IdleExtraction /\ IdleProfile /\ IdleOps /\ IdleTracking /\ IdlePool /\ IdleDuck

SpecLru == InitSpecLru /\ [][NextLru]_vars

NextPolicy ==
    \/ PolicyPut /\ UNCHANGED <<tabVars, kernelVars, agentVars, repairVars, selectorVars, extractVars, profileVars, opVars, trackVars, poolVars, duckVars>>
    \/ PolicyGet /\ UNCHANGED <<tabVars, kernelVars, agentVars, repairVars, selectorVars, extractVars, profileVars, opVars, trackVars, poolVars, duckVars>>

InitSpecPolicy == InitSpecCache /\ duckdb /\ ~redis_client

SpecPolicy == InitSpecPolicy /\ [][NextPolicy]_vars

NextKeys ==
    \/ GenerateKeys /\ UNCHANGED <<tabVars, kernelVars, agentVars, repairVars, selectorVars, extractVars, profileVars, opVars, trackVars, poolVars, duckVars>>

InitSpecKeys ==
    /\ InitKeys /\ IdleTabs /\ IdleKernel /\ IdleAgent /\ IdleRepair
    /\ IdleSelectors /\ IdleExtraction /\ IdleProfile /\ IdleOps /\ IdleTracking /\ IdlePool /\ IdleDuck

SpecKeys == InitSpecKeys /\ [][NextKeys]_vars

NextSelectors ==
    \/ TrackSelector /\ UNCHANGED <<tabVars, kernelVars, agentVars, repairVars, extractVars, profileVars, opVars, trackVars, poolVars, duckVars>>
    \/ PostElement /\ UNCHANGED <<tabVars, kernelVars, agentVars, repairVars, extractVars, profileVars, opVars, trackVars, poolVars, duckVars>>

InitSpecSelectors ==
    /\ InitSelectors /\ InitCache /\ ~redis_client
    /\ IdleTabs /\ IdleKernel /\ IdleAgent /\ IdleRepair /\ IdleExtraction /\ IdleProfile /\ IdleOps /\ IdleTracking /\ IdlePool /\ IdleDuck

SpecSelectors == InitSpecSelectors /\ [][NextSelectors]_vars

NextBest ==
    \/ BestPost /\ UNCHANGED <<tabVars, kernelVars, agentVars, repairVars, extractVars, profileVars, opVars, trackVars, poolVars, duckVars>>
    \/ BestQuery /\ UNCHANGED <<tabVars, kernelVars, agentVars, repairVars, extractVars, profileVars, opVars, trackVars, poolVars, duckVars>>

InitSpecBest ==
    /\ InitBest /\ InitCache /\ duckdb /\ ~redis_client
    /\ IdleTabs /\ IdleKernel /\ IdleAgent /\ IdleRepair /\ IdleExtraction /\ IdleProfile /\ IdleOps /\ IdleTracking /\ IdlePool /\ IdleDuck

SpecBest == InitSpecBest /\ [][NextBest]_vars

NextExtract ==
    \/ ExtractCall /\ UNCHANGED <<tabVars, kernelVars, agentVars, repairVars, profileVars, opVars, trackVars, poolVars, duckVars>>
    \/ cf_check /\ UNCHANGED <<tabVars, kernelVars, agentVars, repairVars, profileVars, opVars, trackVars, poolVars, duckVars>>
    \/ cache_check /\ UNCHANGED <<tabVars, kernelVars, agentVars, repairVars, profileVars, opVars, trackVars, poolVars, duckVars>>
    \/ find /\ UNCHANGED <<tabVars, kernelVars, agentVars, repairVars, profileVars, opVars, trackVars, poolVars, duckVars>>
    \/ cache_save /\ UNCHANGED <<tabVars, kernelVars, agentVars, repairVars, profileVars, opVars, trackVars, poolVars, duckVars>>
    \/ p_lookup /\ UNCHANGED <<tabVars, kernelVars, agentVars, repairVars, profileVars, opVars, trackVars, poolVars, duckVars>>
    \/ p_gather /\ UNCHANGED <<tabVars, kernelVars, agentVars, repairVars, profileVars, opVars, trackVars, poolVars, duckVars>>
    \/ p_save /\ UNCHANGED <<tabVars, kernelVars, agentVars, repairVars, profileVars, opVars, trackVars, poolVars, duckVars>>

InitSpecExtract ==
    /\ IdleExtraction /\ IdleProfile /\ InitSelectors /\ InitCache /\ ~redis_client
    /\ IdleTabs /\ IdleKernel /\ IdleAgent /\ IdleRepair /\ IdleOps /\ IdleTracking /\ IdlePool /\ IdleDuck

SpecExtract == InitSpecExtract /\ [][NextExtract]_vars

NextProfile ==
    \/ BrowserManager_init
         /\ UNCHANGED <<tabVars, kernelVars, agentVars, repairVars, cacheVars,
                        selectorVars, extractVars, opVars, trackVars, poolVars, duckVars>>
    \/ create_browser_directories
         /\ UNCHANGED <<tabVars, kernelVars, agentVars, repairVars, cacheVars,
                        selectorVars, extractVars, opVars, trackVars, poolVars, duckVars>>

InitSpecProfile ==
    /\ InitProfile /\ IdleTabs /\ IdleKernel /\ IdleAgent /\ IdleRepair
    /\ IdleCache /\ IdleSelectors /\ IdleExtraction /\ IdleOps /\ IdleTracking /\ IdlePool /\ IdleDuck

SpecProfile == InitSpecProfile /\ [][NextProfile]_vars

NextOps ==
    \/ \E c \in Callers : OperationCall(c) /\ UNCHANGED <<tabVars, agentVars, repairVars, cacheVars, selectorVars, extractVars, profileVars, trackVars, poolVars, duckVars>>
    \/ \E c \in Callers : OperationStart(c) /\ UNCHANGED <<tabVars, agentVars, repairVars, cacheVars, selectorVars, extractVars, profileVars, trackVars, poolVars, duckVars>>
    \/ \E c \in Callers : OperationEnd(c) /\ UNCHANGED <<tabVars, agentVars, repairVars, cacheVars, selectorVars, extractVars, profileVars, trackVars, poolVars, duckVars>>
    \/ \E c \in Callers : gb_enter(c) /\ UNCHANGED <<tabVars, agentVars, repairVars, cacheVars, selectorVars, extractVars, profileVars, opVars, trackVars, poolVars, duckVars>>
    \/ \E c \in Callers : gb_closed(c) /\ UNCHANGED <<tabVars, agentVars, repairVars, cacheVars, selectorVars, extractVars, profileVars, opVars, trackVars, poolVars, duckVars>>
    \/ \E c \in Callers : gb_started(c) /\ UNCHANGED <<tabVars, agentVars, repairVars, cacheVars, selectorVars, extractVars, profileVars, opVars, trackVars, poolVars, duckVars>>
    \/ \E c \in Callers : gt_quick(c) /\ UNCHANGED <<tabVars, agentVars, repairVars, cacheVars, selectorVars, extractVars, profileVars, opVars, trackVars, poolVars, duckVars>>
    \/ \E c \in Callers : gt_quick_probed(c) /\ UNCHANGED <<tabVars, agentVars, repairVars, cacheVars, selectorVars, extractVars, profileVars, opVars, trackVars, poolVars, duckVars>>
    \/ \E c \in Callers : gt_lock(c) /\ UNCHANGED <<tabVars, agentVars, repairVars, cacheVars, selectorVars, extractVars, profileVars, opVars, trackVars, poolVars, duckVars>>
    \/ \E c \in Callers : gt_recheck_probed(c) /\ UNCHANGED <<tabVars, agentVars, repairVars, cacheVars, selectorVars, extractVars, profileVars, opVars, trackVars, poolVars, duckVars>>
    \/ BrowserCrash /\ UNCHANGED <<tabVars, agentVars, repairVars, cacheVars, selectorVars, extractVars, profileVars, opVars, trackVars, poolVars, duckVars>>

InitSpecOps ==
    /\ InitKernel /\ IdleOps /\ IdleTabs /\ IdleAgent /\ IdleRepair /\ IdleCache
    /\ IdleSelectors /\ IdleExtraction /\ IdleProfile /\ IdleTracking /\ IdlePool /\ IdleDuck

SpecOps == InitSpecOps /\ [][NextOps]_vars

NextHandles ==
    \/ \E c \in Callers : HandleCall(c) /\ UNCHANGED <<tabVars, agentVars, repairVars, cacheVars, selectorVars, extractVars, profileVars, opVars, trackVars, poolVars, duckVars>>
    \/ \E c \in Callers : gb_enter(c) /\ UNCHANGED <<tabVars, agentVars, repairVars, cacheVars, selectorVars, extractVars, profileVars, opVars, trackVars, poolVars, duckVars>>
    \/ \E c \in Callers : gb_closed(c) /\ UNCHANGED <<tabVars, agentVars, repairVars, cacheVars, selectorVars, extractVars, profileVars, opVars, trackVars, poolVars, duckVars>>
    \/ \E c \in Callers : gb_started(c) /\ UNCHANGED <<tabVars, agentVars, repairVars, cacheVars, selectorVars, extractVars, profileVars, opVars, trackVars, poolVars, duckVars>>
    \/ \E c \in Callers : gt_quick(c) /\ UNCHANGED <<tabVars, agentVars, repairVars, cacheVars, selectorVars, extractVars, profileVars, opVars, trackVars, poolVars, duckVars>>
    \/ \E c \in Callers : gt_quick_probed(c) /\ UNCHANGED <<tabVars, agentVars, repairVars, cacheVars, selectorVars, extractVars, profileVars, opVars, trackVars, poolVars, duckVars>>
    \/ \E c \in Callers : gt_lock(c) /\ UNCHANGED <<tabVars, agentVars, repairVars, cacheVars, selectorVars, extractVars, profileVars, opVars, trackVars, poolVars, duckVars>>
    \/ \E c \in Callers : gt_recheck_probed(c) /\ UNCHANGED <<tabVars, agentVars, repairVars, cacheVars, selectorVars, extractVars, profileVars, opVars, trackVars, poolVars, duckVars>>
    \/ BrowserCrash /\ UNCHANGED <<tabVars, agentVars, repairVars, cacheVars, selectorVars, extractVars, profileVars, opVars, trackVars, poolVars, duckVars>>

InitSpecHandles == InitSpecBrowser

SpecHandles == InitSpecHandles /\ [][NextHandles]_vars

NextTracking ==
    \/ \E t \in Trackers : TrackCall(t) /\ UNCHANGED <<tabVars, kernelVars, agentVars, repairVars, cacheVars, selectorVars, extractVars, profileVars, opVars, poolVars, duckVars>>
    \/ \E t \in Trackers : TrackGetReturn(t) /\ UNCHANGED <<tabVars, kernelVars, agentVars, repairVars, cacheVars, selectorVars, extractVars, profileVars, opVars, poolVars, duckVars>>
    \/ \E t \in Trackers : TrackSetReturn(t) /\ UNCHANGED <<tabVars, kernelVars, agentVars, repairVars, cacheVars, selectorVars, extractVars, profileVars, opVars, poolVars, duckVars>>

InitSpecTracking ==
    /\ InitTracking /\ IdleTabs /\ IdleKernel /\ IdleAgent /\ IdleRepair
    /\ IdleCache /\ IdleSelectors /\ IdleExtraction /\ IdleProfile /\ IdleOps /\ IdlePool /\ IdleDuck

SpecTracking == InitSpecTracking /\ [][NextTracking]_vars

NextPool ==
    \/ \E c \in Callers : PoolCall(c) /\ UNCHANGED <<tabVars, kernelVars, agentVars, repairVars, cacheVars, selectorVars, extractVars, profileVars, opVars, trackVars, duckVars>>
    \/ \E c \in Callers : lock_acquired(c) /\ UNCHANGED <<tabVars, kernelVars, agentVars, repairVars, cacheVars, selectorVars, extractVars, profileVars, opVars, trackVars, duckVars>>
    \/ \E c \in Callers : reset_return(c) /\ UNCHANGED <<tabVars, kernelVars, agentVars, repairVars, cacheVars, selectorVars, extractVars, profileVars, opVars, trackVars, duckVars>>
    \/ \E c \in Callers : new_tab_return(c) /\ UNCHANGED <<tabVars, kernelVars, agentVars, repairVars, cacheVars, selectorVars, extractVars, profileVars, opVars, trackVars, duckVars>>
    \/ \E c \in Callers : alive_return(c) /\ UNCHANGED <<tabVars, kernelVars, agentVars, repairVars, cacheVars, selectorVars, extractVars, profileVars, opVars, trackVars, duckVars>>
    \/ PoolTick /\ UNCHANGED <<tabVars, kernelVars, agentVars, repairVars, cacheVars, selectorVars, extractVars, profileVars, opVars, trackVars, duckVars>>

InitSpecPool ==
    /\ IdlePool /\ IdleTabs /\ IdleKernel /\ IdleAgent /\ IdleRepair
    /\ IdleCache /\ IdleSelectors /\ IdleExtraction /\ IdleProfile /\ IdleOps
    /\ IdleTracking /\ IdleDuck

SpecPool == InitSpecPool /\ [][NextPool]_vars

NextDuck ==
    \/ \E h \in Handlers : HandlerCall(h) /\ UNCHANGED <<tabVars, kernelVars, agentVars, repairVars, cacheVars, selectorVars, extractVars, profileVars, opVars, trackVars, poolVars>>
    \/ \E h \in Handlers : getter_resumed(h) /\ UNCHANGED <<tabVars, kernelVars, agentVars, repairVars, cacheVars, selectorVars, extractVars, profileVars, opVars, trackVars, poolVars>>
    \/ \E h \in Handlers : handler_exit(h) /\ UNCHANGED <<tabVars, kernelVars, agentVars, repairVars, cacheVars, selectorVars, extractVars, profileVars, opVars, trackVars, poolVars>>

InitSpecDuck ==
    /\ IdleDuck /\ IdleTabs /\ IdleKernel /\ IdleAgent /\ IdleRepair
    /\ IdleCache /\ IdleSelectors /\ IdleExtraction /\ IdleProfile /\ IdleOps
    /\ IdleTracking /\ IdlePool

SpecDuck == InitSpecDuck /\ [][NextDuck]_vars

\* The event loop runs every task that can run: a handler in its body
\* finishes it, and a woken getter tests the queue again.
DuckProgress(h) ==
    /\ handler_exit(h) \/ getter_resumed(h)
    /\ UNCHANGED <<tabVars, kernelVars, agentVars, repairVars, cacheVars, selectorVars, extractVars, profileVars, opVars, trackVars, poolVars>>

FairSpecDuck ==
    /\ InitSpecDuck
    /\ [][NextDuck]_vars
    /\ \A h \in Handlers : WF_vars(DuckProgress(h))

====
